---- MODULE Spec2Model ----
(***************************************************************************)
(* Model of the stepper engine of cnc_robot_control (core/src/Stepper.c):  *)
(* the per-motor pulser worker, the request object shared by the motors of *)
(* one motion, and the public operations called by the controlling         *)
(* threads.  Every shared-memory access of the C code that another thread  *)
(* can observe is one step of the model.                                   *)
(***************************************************************************)
EXTENDS Integers, Sequences, FiniteSets, TLC

(* ------------------------------------------------------------------ *)
(* Program constants                                                    *)
(* ------------------------------------------------------------------ *)
NULL == 0
MOTOR_LIST_SIZE_MAX == 8
MAX_PPS == 4160
DIRECTION_COUNTERCLOCKWISE == 0
DIRECTION_CLOCKWISE == 1
DIRECTION_NEGATIVE == -1
DIRECTION_POSITIVE == 1
DIRECTION_INVALID == 2
INVALID_PIN == -1
MOTOR_NAME_LEN == 32
AXIS_NAME_LEN == 32
PARAM_MAX_LEN == 32
MAX_STACK_SIZE == 1048576
NANO_IN_SECOND == 1000000000

(* ------------------------------------------------------------------ *)
(* Bounds of the model                                                  *)
(* ------------------------------------------------------------------ *)
\* largest step count a caller passes to step / step_multiple
MaxReqSteps == 2
\* number of API calls the controlling threads make in one run
MaxCalls == 3
\* the same for a thread that drives a single motor, and for two threads
\* that drive a pair
MaxCallsSolo == 4
MaxCallsPair == 2
MaxCallsOverlap == 3
\* and for one thread that passes arbitrary arguments
MaxCallsBatch == 2
\* number of axis operations one thread calls in one run
MaxCallsAxis == 2
\* and in one run that follows the direction latch through several moves
MaxCallsLatch == 3
\* and for two threads that start one motion and both await it
MaxCallsBoth == 3
\* and for one thread that also turns the direction of the motor
MaxCallsTurn == 4
\* longest distance of a there-and-back move, in mm
MaxTrip == 1
\* largest distance, microsteps per rotation and mm per rotation converted
MaxMm == 3
MaxMicrosteps == 3
MaxMmPerRotation == 3
\* number of [motor] and [axis] sections in a configuration file
MaxSections == 3
\* number of key lines after the section header of a file
MaxKeyLines == 2
\* number of section headers in a file, and of names in a motor list
MaxHeaders == 9
MaxNames == 9
MaxLines == 3
MaxFieldSections == 2
MaxTasks == 3
MaxLookups == 2
MaxSec == 2

\* the motors of the machine (two Stepper objects, as in Stepper_test.c)
Motors == {1, 2}
\* the controlling threads
Callers == {1, 2}
\* heap cells for a request and the mutex allocated with it
ReqIds == {1, 2, 3, 4}
\* motor lists passed to the *_multiple operations (no motor twice)
MotorLists == {<<1>>, <<2>>, <<1, 2>>, <<2, 1>>}
\* speeds passed to set_speed
PpsInputs == {200}
\* arguments of the *_multiple operations, the invalid ones included: motor
\* arrays that hold a NULL handle, a NULL array, counts outside
\* 1..MOTOR_LIST_SIZE_MAX (negative only for step_multiple, whose count is an
\* int), zero steps, zero pps; and speeds on both sides of the limit
BatchLists == {<<2>>, <<1, 2>>, <<NULL>>, <<1, NULL>>}
BatchSteps == {0, 1}
BatchPps == {0, 1, 200, MAX_PPS, 5000}
BadCounts == {0, MOTOR_LIST_SIZE_MAX + 1}
StepArgs ==
  {[list |-> l, nolist |-> FALSE, count |-> Len(l), n |-> n] :
     l \in BatchLists, n \in BatchSteps}
  \cup {[list |-> <<1, 2>>, nolist |-> FALSE, count |-> k, n |-> 1] :
          k \in BadCounts \cup {-1}}
  \cup {[list |-> <<>>, nolist |-> TRUE, count |-> 1, n |-> 1]}
SpeedArgs ==
  {[list |-> l, nolist |-> FALSE, count |-> Len(l), pps |-> s] :
     l \in BatchLists, s \in BatchPps}
  \cup {[list |-> <<1, 2>>, nolist |-> FALSE, count |-> k, pps |-> 200] :
          k \in BadCounts}
  \cup {[list |-> <<>>, nolist |-> TRUE, count |-> 1, pps |-> 200]}
\* thread identities, for mutex ownership
NoOwner == 0
CallerTid(c) == c
PulserTid(m) == 10 + m
\* the accumulator is followed up to this magnitude when two requests overlap
\* and a step count has wrapped
AccCapOverlap == 3

VARIABLES
  \* struct stepper, one per motor
  current_req, shared_mutex, curr_direction, half_period, steps, stop,
  req_available, struct_mutex,
  \* libgpiod's state of each motor's step line: requested or free
  line_requested,
  \* the heap: request blocks and their mutexes
  req, mtx,
  \* the pulser worker of each motor: position and locals
  ppc, pl,
  \* the controlling threads: position, locals, last return value
  cpc, cl, cret,
  \* history: the last call each controlling thread has completed
  done,
  \* the axis object (struct axis): its reset_dir latch; and the position and
  \* locals of each controlling thread inside an axis operation
  reset_dir, apc, al,
  \* history: the axis operations completed so far, in order
  alog,
  \* config.c: the parser's state, the two static lists and their lengths
  motor_config_state, motor_list, motor_list_len, axis_list, axis_list_len,
  \* the locals of motor_config_state_machine, the position in the file, and
  \* how far read_motor_config has got
  sm,
  \* the value read_motor_config returned
  retval,
  \* Tasks.c: the task list (pointers to info blocks, head first), the info
  \* blocks, the position of each worker thread, CreateTask in progress, and
  \* the last Task_get_id_by_name (n: how many were made)
  task_list, task_info, tpc, ct, lookup,
  \* Time.c: the timespec add_time has written
  result,
  \* API calls made so far; the process has died on a fault
  calls, crashed,
  \* what the controlling threads of this run do (fixed by the initial state)
  env,
  \* history kept for the properties only: of each request, and whether a
  \* stop call on each motor has returned
  g, stop_returned

motorVars == <<current_req, shared_mutex, curr_direction, half_period, steps,
               stop, req_available, struct_mutex, line_requested>>
heapVars == <<req, mtx>>
pulserVars == <<ppc, pl>>
callerVars == <<cpc, cl, cret, done, calls, env>>
axisVars == <<reset_dir, apc, al, alog>>
coreVars == <<task_list, task_info, tpc, ct, lookup, result>>
cfgVars == <<motor_config_state, motor_list, motor_list_len, axis_list,
             axis_list_len, sm, retval, coreVars>>
vars == <<motorVars, heapVars, pulserVars, callerVars, axisVars, cfgVars, crashed, g,
         stop_returned>>

(* ------------------------------------------------------------------ *)
(* Helpers                                                              *)
(* ------------------------------------------------------------------ *)
\* pos_direction is chosen at stepper_init and never changes
pos_direction(m) == IF m = 1 THEN DIRECTION_CLOCKWISE ELSE DIRECTION_COUNTERCLOCKWISE

stepper_is_busy(m) == shared_mutex[m] # NULL

stepper_ready(m) == ~stepper_is_busy(m)

stepper_get_steps(m) == steps[m]

Abs(x) == IF x < 0 THEN -x ELSE x

SeqRange(s) == {s[k] : k \in 1..Len(s)}

\* the motors a request block lists
Participants(r) == {req[r].motor_list[k] : k \in 1..req[r].count}

EmptyReq == [live |-> FALSE, motor_list |-> <<>>, motor_waiting |-> NULL,
             count |-> 0, req_steps |-> 0]
EmptyMtx == [live |-> FALSE, owner |-> NoOwner]
EmptyPl == [pulse_duration |-> 0, num_motors |-> 0, stop |-> 0, i |-> 0,
            node |-> NULL, tmp |-> 0, shr |-> NULL, waiting |-> NULL,
            request |-> NULL]
\* locals of a call; target and relinked are history: the request the motor
\* belonged to when stop read it busy, and whether another thread has linked
\* the motor to a request since the call began
\* nolist: the motors argument itself is NULL; count: the count argument;
\* after (history): the requests on the motor whose step_multiple had returned
\* when wait was called
EmptyCl == [op |-> "none", list |-> <<>>, motor |-> NULL, arg |-> 0, i |-> 0,
            request |-> NULL, flag |-> 0, target |-> NULL, relinked |-> FALSE,
            nolist |-> FALSE, count |-> 0, after |-> {}]
\* the record of a completed call: its locals at the return and its result
EmptyDone == [call |-> EmptyCl, ret |-> 0]
\* locals of an axis operation: the distance argument (in millimetres), the
\* loop index of axis_set_direction and the direction it sets, the step count
\* (next: where axis_move goes on after axis_set_direction); and, as history,
\* the argument as passed and the latch, directions, accumulators and business
\* of the axis when the operation was called
EmptyAl == [op |-> "none", distance |-> 0, i |-> 0, direction |-> 0, steps |-> 0,
            next |-> "idle", arg |-> 0, latch0 |-> 0,
            dir0 |-> [m \in Motors |-> 0], steps0 |-> [m \in Motors |-> 0],
            busy0 |-> FALSE]
\* n: steps requested; base: the accumulators at acceptance; afterStop: a stop
\* on a participant had returned before acceptance; stopSet: a participant's
\* stop flag has been set while the request was in flight; stopCalled: by a
\* stop call made during the motion; highs: high writes; highsAfterStop: those
\* since stopCalled; ended: the pulse loop has been left, early: with steps
\* remaining, observed: with the folded stop set; ticks: accumulator updates;
\* returned: step_multiple has returned success; awaited: a wait on a
\* participant, called after that, has returned; level: the last value
\* written to the bulk
EmptyG == [n |-> 0, base |-> [m \in Motors |-> 0], afterStop |-> FALSE,
           stopSet |-> FALSE, stopCalled |-> FALSE,
           highs |-> 0, highsAfterStop |-> 0, ended |-> FALSE, early |-> FALSE,
           observed |-> FALSE, ticks |-> [m \in Motors |-> 0],
           returned |-> FALSE, awaited |-> FALSE, level |-> "none"]

\* a request whose pulse loop has not been left yet
InFlight(r) == req[r].live /\ ~g[r].ended

\* malloc: the lowest heap cell whose request block and mutex are both free
FreeIds == {r \in ReqIds : ~req[r].live /\ ~mtx[r].live}
AllocId == CHOOSE r \in FreeIds : \A q \in FreeIds : r <= q

(* ------------------------------------------------------------------ *)
(* The machine after stepper_init of every motor                        *)
(* ------------------------------------------------------------------ *)
\* struct motor_config and struct axis_config, zeroed; motor and axis are the
\* constructed objects (NULL: none), motors[] holds indexes into motor_list
\* struct task_info, zeroed (live: the block is allocated), and CreateTask
\* when it is not running: its position, its info block and what it returned
EmptyTaskInfo == [name |-> "", thread_id |-> 0, live |-> FALSE]
EmptyCt == [pc |-> "idle", info |-> NULL, ret |-> 0]
EmptyMotorConfig == [name |-> <<>>, step_pin |-> 0, dir_pin |-> 0, microstep |-> 0,
                     steps_rot |-> 0, direction |-> 0, motor |-> NULL]
EmptyAxisConfig == [name |-> <<>>, mm_rot |-> 0, count |-> 0, motors |-> <<>>,
                    axis |-> NULL]
\* the locals of motor_config_state_machine as it starts, with the number of
\* lines read so far (pos), the phase of read_motor_config and its file handle;
\* err_str is the character that the message in err_str shows with %c (NUL:
\* none), stderr the number of lines the state machine has written to stderr
EmptySm == [phase |-> "idle", config_file |-> NULL, pos |-> 0, line_buff |-> <<>>, offset |-> 0,
            param |-> <<>>, param_id |-> "INVALID_PARAM", value |-> <<>>,
            last_id |-> "INVALID_TYPE", error |-> 0, err_str |-> "",
            stderr |-> 0]

Machine ==
  /\ current_req = [m \in Motors |-> NULL]
  /\ shared_mutex = [m \in Motors |-> NULL]
  /\ curr_direction = [m \in Motors |-> pos_direction(m)]
  /\ half_period = [m \in Motors |-> 0]
  /\ steps = [m \in Motors |-> 0]
  /\ stop = [m \in Motors |-> 0]
  /\ req_available = [m \in Motors |-> 0]
  /\ struct_mutex = [m \in Motors |-> NoOwner]
  /\ line_requested = [m \in Motors |-> FALSE]
  /\ req = [r \in ReqIds |-> EmptyReq]
  /\ mtx = [r \in ReqIds |-> EmptyMtx]
  /\ ppc = [m \in Motors |-> "p_lock"]
  /\ pl = [m \in Motors |-> EmptyPl]
  /\ cpc = [c \in Callers |-> "idle"]
  /\ cl = [c \in Callers |-> EmptyCl]
  /\ cret = [c \in Callers |-> 0]
  /\ done = [c \in Callers |-> EmptyDone]
  /\ reset_dir = 0
  /\ apc = [c \in Callers |-> "idle"]
  /\ al = [c \in Callers |-> EmptyAl]
  /\ alog = <<>>
  /\ motor_config_state = "CLEANUP"
  /\ motor_list = [i \in 1..MOTOR_LIST_SIZE_MAX |-> EmptyMotorConfig]
  /\ motor_list_len = 0
  /\ axis_list = [i \in 1..MOTOR_LIST_SIZE_MAX |-> EmptyAxisConfig]
  /\ axis_list_len = 0
  /\ sm = EmptySm
  /\ retval = 0
  /\ task_list = <<>>
  /\ task_info = [k \in 1..MaxTasks |-> EmptyTaskInfo]
  /\ tpc = [k \in 1..MaxTasks |-> "none"]
  /\ ct = EmptyCt
  /\ lookup = [n |-> 0, name |-> "", id |-> 0]
  /\ result = [tv_sec |-> 0, tv_nsec |-> 0]
  /\ calls = 0
  /\ crashed = FALSE
  /\ g = [r \in ReqIds |-> EmptyG]
  /\ stop_returned = [m \in Motors |-> FALSE]

(* ------------------------------------------------------------------ *)
(* Faults: a null or freed pointer is dereferenced, the process dies    *)
(* ------------------------------------------------------------------ *)
\* request->motor_list[i]; the block is zeroed by memset, so an unused slot is NULL
ListAt(r, i) == IF i >= 1 /\ i <= Len(req[r].motor_list) THEN req[r].motor_list[i] ELSE NULL

BadReq(r) == IF r = NULL THEN TRUE ELSE ~req[r].live
BadMtx(x) == IF x = NULL THEN TRUE ELSE ~mtx[x].live

Die == /\ crashed' = TRUE
       /\ UNCHANGED <<motorVars, heapVars, pulserVars, callerVars, axisVars, cfgVars, g, stop_returned>>

\* the pulser of motor m is about to use motor->current_req, its shr_mutex or
\* the request it is destroying, and that pointer is NULL or dangling
PulserFaulty(m) ==
  \/ /\ ppc[m] \in {"p_start", "p_high", "p_low", "p_upd_read", "p_dec", "p_lockshr"}
     /\ BadReq(current_req[m])
  \/ /\ ppc[m] = "p_upd_read"
     /\ current_req[m] # NULL
     /\ ListAt(current_req[m], pl[m].i) = NULL
  \/ /\ ppc[m] \in {"p_lockshr", "p_free"}
     /\ BadMtx(pl[m].shr)
  \/ /\ ppc[m] \in {"p_clr_req", "p_clr_mtx", "p_free"}
     /\ BadReq(pl[m].request)
  \/ /\ ppc[m] \in {"p_clr_req", "p_clr_mtx"}
     /\ pl[m].request # NULL
     /\ ListAt(pl[m].request, pl[m].i) = NULL

PulserFault(m) ==
  /\ ~crashed
  /\ PulserFaulty(m)
  /\ Die

(* ------------------------------------------------------------------ *)
(* motor_pulser: the worker of motor m                                  *)
(* ------------------------------------------------------------------ *)
\* pthread_mutex_lock(&motor->struct_mutex) (also on return from
\* pthread_cond_wait); while(!motor->req_available) ...; otherwise
\* motor->req_available = 0 and unlock
P_Check(m) ==
  /\ ~crashed
  /\ ppc[m] = "p_lock"
  /\ struct_mutex[m] = NoOwner
  /\ IF req_available[m] = 0
       THEN /\ struct_mutex' = [struct_mutex EXCEPT ![m] = PulserTid(m)]
            /\ ppc' = [ppc EXCEPT ![m] = "p_condwait"]
            /\ UNCHANGED req_available
       ELSE /\ req_available' = [req_available EXCEPT ![m] = 0]
            /\ ppc' = [ppc EXCEPT ![m] = "p_start"]
            /\ UNCHANGED struct_mutex
  /\ UNCHANGED <<current_req, shared_mutex, curr_direction, half_period, steps,
                 stop, line_requested, heapVars, pl, callerVars, axisVars, cfgVars, stop_returned, crashed, g>>

\* pthread_cond_wait(&motor->req_cv, &motor->struct_mutex): release and block
P_CondWait(m) ==
  /\ ~crashed
  /\ ppc[m] = "p_condwait"
  /\ struct_mutex' = [struct_mutex EXCEPT ![m] = NoOwner]
  /\ ppc' = [ppc EXCEPT ![m] = "p_blocked"]
  /\ UNCHANGED <<current_req, shared_mutex, curr_direction, half_period, steps,
                 stop, req_available, line_requested, heapVars, pl, callerVars, axisVars, cfgVars,
                 stop_returned, crashed, g>>

\* POSIX allows pthread_cond_wait to return without a signal
P_SpuriousWake(m) ==
  /\ ~crashed
  /\ ppc[m] = "p_blocked"
  /\ ppc' = [ppc EXCEPT ![m] = "p_lock"]
  /\ UNCHANGED <<motorVars, heapVars, pl, callerVars, axisVars, cfgVars, stop_returned, crashed, g>>

\* pulse_duration from half_period; num_motors = current_req->count; stop = 0
P_Start(m) ==
  /\ ~crashed
  /\ ppc[m] = "p_start"
  /\ current_req[m] # NULL
  /\ pl' = [pl EXCEPT ![m].pulse_duration = half_period[m],
                      ![m].num_motors = req[current_req[m]].count,
                      ![m].stop = 0]
  /\ ppc' = [ppc EXCEPT ![m] = "p_high"]
  /\ UNCHANGED <<motorVars, heapVars, callerVars, axisVars, cfgVars, stop_returned, crashed, g>>

\* GPIO_write_bulk(motor->current_req->pin_bulk, high); sleep
P_High(m) ==
  /\ ~crashed
  /\ ppc[m] = "p_high"
  /\ current_req[m] # NULL
  /\ LET r == current_req[m] IN
       g' = [g EXCEPT ![r].highs = @ + 1,
                      ![r].highsAfterStop = IF g[r].stopCalled THEN @ + 1 ELSE @,
                      ![r].level = "high"]
  /\ ppc' = [ppc EXCEPT ![m] = "p_low"]
  /\ UNCHANGED <<motorVars, heapVars, pl, callerVars, axisVars, cfgVars, stop_returned, crashed>>

\* GPIO_write_bulk(motor->current_req->pin_bulk, low); sleep
P_Low(m) ==
  /\ ~crashed
  /\ ppc[m] = "p_low"
  /\ current_req[m] # NULL
  /\ pl' = [pl EXCEPT ![m].i = 1]
  /\ ppc' = [ppc EXCEPT ![m] = "p_upd_read"]
  /\ g' = [g EXCEPT ![current_req[m]].level = "low"]
  /\ UNCHANGED <<motorVars, heapVars, callerVars, axisVars, cfgVars, stop_returned, crashed>>

\* node = motor->current_req->motor_list[i]; load of node->steps
P_UpdRead(m) ==
  /\ ~crashed
  /\ ppc[m] = "p_upd_read"
  /\ current_req[m] # NULL
  /\ LET node == ListAt(current_req[m], pl[m].i) IN
       /\ node # NULL
       /\ pl' = [pl EXCEPT ![m].node = node, ![m].tmp = steps[node]]
  /\ ppc' = [ppc EXCEPT ![m] = "p_upd_write"]
  /\ UNCHANGED <<motorVars, heapVars, callerVars, axisVars, cfgVars, stop_returned, crashed, g>>

\* the accumulator after one pulse of a motor turning in direction dir
StepUpdate(m, acc, dir) == IF dir = pos_direction(m) THEN acc + 1 ELSE acc - 1

\* store of node->steps (++ or --); stop |= node->stop; next i
P_UpdWrite(m) ==
  /\ ~crashed
  /\ ppc[m] = "p_upd_write"
  /\ LET node == pl[m].node
         new == StepUpdate(node, pl[m].tmp, curr_direction[node])
         r == current_req[m]
     IN /\ Abs(new) <= env.acccap
        /\ steps' = [steps EXCEPT ![node] = new]
        /\ pl' = [pl EXCEPT ![m].stop = IF stop[node] # 0 THEN 1 ELSE @,
                            ![m].i = @ + 1,
                            ![m].node = NULL, ![m].tmp = 0]
        /\ ppc' = [ppc EXCEPT ![m] = IF pl[m].i < pl[m].num_motors
                                       THEN "p_upd_read" ELSE "p_dec"]
        /\ g' = IF r # NULL THEN [g EXCEPT ![r].ticks[node] = @ + 1] ELSE g
  /\ UNCHANGED <<current_req, shared_mutex, curr_direction, half_period, stop,
                 req_available, struct_mutex, line_requested, heapVars,
                 callerVars, axisVars, cfgVars, stop_returned, crashed>>

\* req_steps is an unsigned int: 0 - 1 wraps to UINT_MAX (2^32 - 1).  The tool's
\* integers end at 2^31 - 1; the value is only decremented and compared with 0.
UINT_WRAPPED == 2147483647
Decrement(x) == IF x = 0 THEN UINT_WRAPPED ELSE x - 1

\* whether the pulse loop goes round again: --req_steps && !stop
LoopAgain(left, stopped) == left # 0 /\ stopped = 0

\* while(--motor->current_req->req_steps && !stop); on leaving the loop
\* shr_mutex = motor->shared_mutex
P_Dec(m) ==
  /\ ~crashed
  /\ ppc[m] = "p_dec"
  /\ current_req[m] # NULL
  /\ LET r == current_req[m]
         left == Decrement(req[r].req_steps)
     IN /\ req' = [req EXCEPT ![r].req_steps = left]
        /\ IF LoopAgain(left, pl[m].stop)
             THEN /\ ppc' = [ppc EXCEPT ![m] = "p_high"]
                  /\ pl' = [pl EXCEPT ![m].i = 0]
                  /\ g' = g
             ELSE /\ ppc' = [ppc EXCEPT ![m] = "p_lockshr"]
                  /\ pl' = [pl EXCEPT ![m].i = 0, ![m].shr = shared_mutex[m]]
                  /\ g' = [g EXCEPT ![r].ended = TRUE, ![r].early = (left # 0),
                                     ![r].observed = (pl[m].stop # 0)]
  /\ UNCHANGED <<motorVars, mtx, callerVars, axisVars, cfgVars, stop_returned, crashed>>

\* pthread_mutex_lock(shr_mutex); waiting_motor = current_req->motor_waiting;
\* stepper_destroy_request begins: gpiod_line_release_bulk(request->pin_bulk)
P_Destroy(m) ==
  /\ ~crashed
  /\ ppc[m] = "p_lockshr"
  /\ pl[m].shr # NULL
  /\ mtx[pl[m].shr].owner = NoOwner
  /\ current_req[m] # NULL
  /\ LET r == current_req[m] IN
       /\ pl' = [pl EXCEPT ![m].waiting = req[r].motor_waiting,
                           ![m].request = r, ![m].i = 1]
       /\ line_requested' = [k \in Motors |->
                               IF k \in Participants(r) THEN FALSE
                               ELSE line_requested[k]]
  /\ mtx' = [mtx EXCEPT ![pl[m].shr].owner = PulserTid(m)]
  /\ ppc' = [ppc EXCEPT ![m] = "p_clr_req"]
  /\ UNCHANGED <<current_req, shared_mutex, curr_direction, half_period, steps,
                 stop, req_available, struct_mutex, req, callerVars, axisVars, cfgVars, stop_returned, crashed, g>>

\* request->motor_list[i]->current_req = NULL
P_ClrReq(m) ==
  /\ ~crashed
  /\ ppc[m] = "p_clr_req"
  /\ pl[m].request # NULL
  /\ LET node == ListAt(pl[m].request, pl[m].i) IN
       /\ node # NULL
       /\ current_req' = [current_req EXCEPT ![node] = NULL]
  /\ ppc' = [ppc EXCEPT ![m] = "p_clr_mtx"]
  /\ UNCHANGED <<shared_mutex, curr_direction, half_period, steps, stop,
                 req_available, struct_mutex, line_requested, heapVars, pl,
                 callerVars, axisVars, cfgVars, stop_returned, crashed, g>>

\* request->motor_list[i]->shared_mutex = NULL; next i
P_ClrMtx(m) ==
  /\ ~crashed
  /\ ppc[m] = "p_clr_mtx"
  /\ pl[m].request # NULL
  /\ LET node == ListAt(pl[m].request, pl[m].i) IN
       /\ node # NULL
       /\ shared_mutex' = [shared_mutex EXCEPT ![node] = NULL]
  /\ pl' = [pl EXCEPT ![m].i = @ + 1]
  /\ ppc' = [ppc EXCEPT ![m] = IF pl[m].i < req[pl[m].request].count
                                 THEN "p_clr_req" ELSE "p_free"]
  /\ UNCHANGED <<current_req, curr_direction, half_period, steps, stop,
                 req_available, struct_mutex, line_requested, heapVars,
                 callerVars, axisVars, cfgVars, stop_returned, crashed, g>>

\* a freed block that no pointer refers to any more can never be read again
Dangling(r) ==
  \/ \E k \in Motors : current_req[k] = r
  \/ \E c \in Callers : cl[c].request = r

\* free(request); pthread_mutex_unlock(shr_mutex)
P_Free(m) ==
  /\ ~crashed
  /\ ppc[m] = "p_free"
  /\ pl[m].request # NULL
  /\ pl[m].shr # NULL
  /\ LET r == pl[m].request IN
       /\ req' = [req EXCEPT ![r] = IF Dangling(r) THEN [@ EXCEPT !.live = FALSE]
                                    ELSE EmptyReq]
       /\ g' = [g EXCEPT ![r] = EmptyG]
       /\ cl' = [c \in Callers |->
                  IF cl[c].target = r THEN [cl[c] EXCEPT !.target = NULL]
                  ELSE cl[c]]
  /\ mtx' = [mtx EXCEPT ![pl[m].shr].owner = NoOwner]
  /\ pl' = [pl EXCEPT ![m].request = NULL, ![m].i = 0]
  /\ ppc' = [ppc EXCEPT ![m] = IF pl[m].waiting # NULL
                                 THEN "p_clearstop" ELSE "p_freemtx"]
  /\ UNCHANGED <<motorVars, cpc, cret, done, calls, env, axisVars, cfgVars, stop_returned, crashed>>

\* waiting_motor->stop = 0
P_ClearStop(m) ==
  /\ ~crashed
  /\ ppc[m] = "p_clearstop"
  /\ stop' = [stop EXCEPT ![pl[m].waiting] = 0]
  /\ ppc' = [ppc EXCEPT ![m] = "p_signal"]
  /\ UNCHANGED <<current_req, shared_mutex, curr_direction, half_period, steps,
                 req_available, struct_mutex, line_requested, heapVars, pl,
                 callerVars, axisVars, cfgVars, stop_returned, crashed, g>>

\* the callers blocked in pthread_cond_wait on motor k's wait_cv
WaitCvWaiters(k) == {c \in Callers : cpc[c] = "w_blocked" /\ cl[c].motor = k}

\* pthread_cond_signal(&waiting_motor->wait_cv): wakes one waiter, if there is one
P_Signal(m) ==
  /\ ~crashed
  /\ ppc[m] = "p_signal"
  /\ LET W == WaitCvWaiters(pl[m].waiting) IN
       IF W = {} THEN cpc' = cpc
       ELSE \E c \in W : cpc' = [cpc EXCEPT ![c] = "w_wait"]
  /\ ppc' = [ppc EXCEPT ![m] = "p_freemtx"]
  /\ UNCHANGED <<motorVars, heapVars, pl, cl, cret, done, calls, env, axisVars, cfgVars, stop_returned, crashed, g>>

\* free(shr_mutex); back to the top of while(1)
P_FreeMtx(m) ==
  /\ ~crashed
  /\ ppc[m] = "p_freemtx"
  /\ mtx' = [mtx EXCEPT ![pl[m].shr] = EmptyMtx]
  /\ pl' = [pl EXCEPT ![m] = EmptyPl]
  /\ ppc' = [ppc EXCEPT ![m] = "p_lock"]
  /\ UNCHANGED <<motorVars, req, callerVars, axisVars, cfgVars, stop_returned, crashed, g>>

Pulser(m) ==
  \/ P_Check(m) \/ P_CondWait(m) \/ P_Start(m)
  \/ P_High(m) \/ P_Low(m) \/ P_UpdRead(m) \/ P_UpdWrite(m) \/ P_Dec(m)
  \/ P_Destroy(m) \/ P_ClrReq(m) \/ P_ClrMtx(m)
  \/ P_Free(m) \/ P_ClearStop(m) \/ P_Signal(m) \/ P_FreeMtx(m)

(* ------------------------------------------------------------------ *)
(* The public API, called by the controlling thread c                   *)
(* ------------------------------------------------------------------ *)
\* a call returns v: the thread is idle again
Return(c, v) ==
  /\ cpc' = [cpc EXCEPT ![c] = "idle"]
  /\ cl' = [cl EXCEPT ![c] = EmptyCl]
  /\ cret' = [cret EXCEPT ![c] = v]
  /\ done' = IF env.record THEN [done EXCEPT ![c] = [call |-> cl[c], ret |-> v]]
             ELSE done

Enter(c, pc, locals) ==
  /\ ~crashed
  /\ cpc[c] = "idle"
  /\ apc[c] = "idle"
  /\ c \in env.callers
  /\ calls < env.maxcalls
  /\ calls' = calls + 1
  /\ UNCHANGED <<env, axisVars, cfgVars>>
  /\ cpc' = [cpc EXCEPT ![c] = pc]
  /\ cl' = [cl EXCEPT ![c] = locals]
  /\ UNCHANGED <<motorVars, heapVars, pulserVars, cret, done, stop_returned, crashed, g>>

(* ---- stepper_step_multiple / stepper_step ---- *)
\* the call with arguments a: the motors array (a.nolist: a NULL pointer),
\* the count and the number of steps n
Call_StepMultipleArgs(c, a) ==
  Enter(c, "sm_check", [EmptyCl EXCEPT !.op = "step_multiple", !.list = a.list,
                                       !.nolist = a.nolist, !.count = a.count,
                                       !.motor = IF Len(a.list) = 0 THEN NULL
                                                 ELSE a.list[1],
                                       !.arg = a.n])

\* the call with a well-formed motor list
Call_StepMultiple(c, list, n) ==
  Call_StepMultipleArgs(c, [list |-> list, nolist |-> FALSE, count |-> Len(list),
                            n |-> n])

\* the parameter validation shared by step_multiple and set_speed_multiple:
\* motors == NULL, steps or pps == 0, count == 0 || count > MOTOR_LIST_SIZE_MAX
ArgsRejected(c) ==
  \/ cl[c].nolist
  \/ cl[c].arg = 0
  \/ cl[c].count = 0
  \/ cl[c].count > MOTOR_LIST_SIZE_MAX

\* parameter validation and the busy check of motors[0]
SM_Check(c) ==
  /\ ~crashed
  /\ cpc[c] = "sm_check"
  /\ IF ArgsRejected(c)
       THEN Return(c, -1)
       ELSE /\ cl[c].motor # NULL
            /\ IF stepper_is_busy(cl[c].motor)
                 THEN Return(c, -1)
                 ELSE /\ cpc' = [cpc EXCEPT ![c] = "sm_create"]
                      /\ UNCHANGED <<cl, cret, done>>
  /\ UNCHANGED <<motorVars, heapVars, pulserVars, calls, env, axisVars, cfgVars, stop_returned, crashed, g>>

\* gpiod_line_request_bulk_output: granted only if every line of the bulk is free
BulkGranted(list, ok) == ok /\ \A k \in SeqRange(list) : ~line_requested[k]

\* a NULL handle among the motors the copy loop of the request reads
NullHandle(list) == \E k \in 1..Len(list) : list[k] = NULL

\* stepper_create_new_request up to the mutex: allocation, the copy of the
\* motor list (a NULL handle fails it before any line is added to the bulk;
\* a negative count, converted to unsigned, runs it past the caller's array),
\* the bulk request, and on failure gpiod_line_release_bulk(bulk) and the frees
SM_Create(c) ==
  /\ ~crashed
  /\ cpc[c] = "sm_create"
  /\ \E ok \in BOOLEAN :
       LET list == cl[c].list IN
       IF FreeIds = {}
         THEN /\ Return(c, -1)
              /\ UNCHANGED <<line_requested, req, mtx, g>>
       ELSE IF NullHandle(list) \/ cl[c].count < 0
         THEN /\ Return(c, -1)
              /\ UNCHANGED <<line_requested, req, mtx, g>>
       ELSE IF ~BulkGranted(list, ok)
         THEN /\ Return(c, -1)
              /\ line_requested' = [k \in Motors |->
                                      IF k \in SeqRange(list) THEN FALSE
                                      ELSE line_requested[k]]
              /\ UNCHANGED <<req, mtx, g>>
       ELSE LET r == AllocId IN
              /\ line_requested' = [k \in Motors |->
                                      IF k \in SeqRange(list) THEN TRUE
                                      ELSE line_requested[k]]
              /\ req' = [req EXCEPT ![r] = [live |-> TRUE, motor_list |-> list,
                                            motor_waiting |-> NULL,
                                            count |-> cl[c].count,
                                            req_steps |-> cl[c].arg]]
              /\ mtx' = [mtx EXCEPT ![r] = [live |-> TRUE, owner |-> NoOwner]]
              /\ g' = [g EXCEPT ![r] = [EmptyG EXCEPT
                                          !.n = cl[c].arg,
                                          !.base = steps,
                                          !.afterStop = \E k \in SeqRange(list) : stop_returned[k],
                                          !.stopSet = \E k \in SeqRange(list) : stop[k] # 0]]
              /\ cpc' = [cpc EXCEPT ![c] = "sm_link_req"]
              /\ cl' = [d \in Callers |->
                         IF d = c THEN [cl[c] EXCEPT !.request = r, !.i = 1]
                         ELSE [cl[d] EXCEPT !.after = @ \ {r}]]
              /\ UNCHANGED <<cret, done>>
  /\ UNCHANGED <<current_req, shared_mutex, curr_direction, half_period, steps,
                 stop, req_available, struct_mutex, pulserVars, calls, env, axisVars, cfgVars, stop_returned, crashed>>

\* motors[i]->current_req = request
SM_LinkReq(c) ==
  /\ ~crashed
  /\ cpc[c] = "sm_link_req"
  /\ current_req' = [current_req EXCEPT ![cl[c].list[cl[c].i]] = cl[c].request]
  /\ cpc' = [cpc EXCEPT ![c] = "sm_link_mtx"]
  /\ UNCHANGED <<shared_mutex, curr_direction, half_period, steps, stop,
                 req_available, struct_mutex, line_requested, heapVars,
                 pulserVars, cl, cret, done, calls, env, axisVars, cfgVars, stop_returned, crashed, g>>

\* motors[i]->shared_mutex = req_mutex; next i
SM_LinkMtx(c) ==
  /\ ~crashed
  /\ cpc[c] = "sm_link_mtx"
  /\ shared_mutex' = [shared_mutex EXCEPT ![cl[c].list[cl[c].i]] = cl[c].request]
  /\ cl' = [d \in Callers |->
             IF d = c THEN [cl[c] EXCEPT !.i = @ + 1]
             ELSE IF cl[d].op \in {"wait", "stop"} /\ cl[d].motor = cl[c].list[cl[c].i]
               THEN [cl[d] EXCEPT !.relinked = TRUE]
             ELSE cl[d]]
  /\ cpc' = [cpc EXCEPT ![c] = IF cl[c].i < cl[c].count
                                 THEN "sm_link_req" ELSE "sm_flag"]
  /\ UNCHANGED <<current_req, curr_direction, half_period, steps, stop,
                 req_available, struct_mutex, line_requested, heapVars,
                 pulserVars, cret, done, calls, env, axisVars, cfgVars, stop_returned, crashed, g>>

\* motors[0]->req_available = 1
SM_Flag(c) ==
  /\ ~crashed
  /\ cpc[c] = "sm_flag"
  /\ req_available' = [req_available EXCEPT ![cl[c].list[1]] = 1]
  /\ cpc' = [cpc EXCEPT ![c] = "sm_signal"]
  /\ UNCHANGED <<current_req, shared_mutex, curr_direction, half_period, steps,
                 stop, struct_mutex, line_requested, heapVars, pulserVars, cl,
                 cret, done, calls, env, axisVars, cfgVars, stop_returned, crashed, g>>

\* pthread_cond_signal(&motors[0]->req_cv); return 0
SM_Signal(c) ==
  /\ ~crashed
  /\ cpc[c] = "sm_signal"
  /\ ppc' = [ppc EXCEPT ![cl[c].list[1]] = IF @ = "p_blocked" THEN "p_lock" ELSE @]
  /\ Return(c, 0)
  /\ g' = [g EXCEPT ![cl[c].request].returned = TRUE]
  /\ UNCHANGED <<motorVars, heapVars, pl, calls, env, axisVars, cfgVars, stop_returned, crashed>>

(* ---- stepper_stop ---- *)
Call_Stop(c, m) ==
  Enter(c, "st_read", [EmptyCl EXCEPT !.op = "stop", !.motor = m])

\* the read of motor->stop = stepper_is_busy(motor)
ST_Read(c) ==
  /\ ~crashed
  /\ cpc[c] = "st_read"
  /\ cl' = [cl EXCEPT ![c].arg = IF stepper_is_busy(cl[c].motor) THEN 1 ELSE 0,
                      ![c].target = shared_mutex[cl[c].motor]]
  /\ cpc' = [cpc EXCEPT ![c] = "st_set"]
  /\ UNCHANGED <<motorVars, heapVars, pulserVars, cret, done, calls, env, axisVars, cfgVars, stop_returned, crashed, g>>

\* the write of motor->stop = stepper_is_busy(motor)
ST_Set(c) ==
  /\ ~crashed
  /\ cpc[c] = "st_set"
  /\ LET m == cl[c].motor IN
       /\ stop' = [stop EXCEPT ![m] = cl[c].arg]
       /\ g' = [r \in ReqIds |->
                  IF cl[c].arg = 1 /\ InFlight(r) /\ m \in Participants(r)
                    THEN [g[r] EXCEPT !.stopSet = TRUE, !.stopCalled = TRUE]
                    ELSE g[r]]
  /\ cpc' = [cpc EXCEPT ![c] = "st_test"]
  /\ UNCHANGED <<current_req, shared_mutex, curr_direction, half_period, steps,
                 req_available, struct_mutex, line_requested, heapVars,
                 pulserVars, cl, cret, done, calls, env, axisVars, cfgVars, stop_returned, crashed>>

\* if(motor->stop) stepper_wait(motor); otherwise stepper_stop returns
ST_Test(c) ==
  /\ ~crashed
  /\ cpc[c] = "st_test"
  /\ IF stop[cl[c].motor] # 0
       THEN /\ cpc' = [cpc EXCEPT ![c] = "w_check"]
            /\ UNCHANGED <<cl, cret, done, stop_returned>>
       ELSE /\ Return(c, 0)
            /\ stop_returned' = [stop_returned EXCEPT ![cl[c].motor] = TRUE]
  /\ UNCHANGED <<motorVars, heapVars, pulserVars, calls, env, axisVars, cfgVars, crashed, g>>

(* ---- stepper_wait ---- *)
Call_Wait(c, m) ==
  Enter(c, "w_check",
        [EmptyCl EXCEPT !.op = "wait", !.motor = m,
                        !.after = {r \in ReqIds : /\ req[r].live
                                                  /\ g[r].returned
                                                  /\ m \in Participants(r)}])

\* if(motor->shared_mutex != NULL)
W_Check(c) ==
  /\ ~crashed
  /\ cpc[c] = "w_check"
  /\ cpc' = [cpc EXCEPT ![c] = IF shared_mutex[cl[c].motor] # NULL
                                 THEN "w_lock" ELSE "ret"]
  /\ UNCHANGED <<motorVars, heapVars, pulserVars, cl, cret, done, calls, env, axisVars, cfgVars, stop_returned, crashed, g>>

\* pthread_mutex_lock(motor->shared_mutex)
W_Lock(c) ==
  /\ ~crashed
  /\ cpc[c] = "w_lock"
  /\ LET x == shared_mutex[cl[c].motor] IN
       /\ x # NULL
       /\ mtx[x].owner = NoOwner
       /\ mtx' = [mtx EXCEPT ![x].owner = CallerTid(c)]
  /\ cpc' = [cpc EXCEPT ![c] = "w_reg"]
  /\ UNCHANGED <<motorVars, req, pulserVars, cl, cret, done, calls, env, axisVars, cfgVars, stop_returned, crashed, g>>

\* motor->current_req->motor_waiting = motor; flag = 1;
\* pthread_mutex_unlock(motor->shared_mutex)
W_Reg(c) ==
  /\ ~crashed
  /\ cpc[c] = "w_reg"
  /\ LET r == current_req[cl[c].motor]
         x == shared_mutex[cl[c].motor]
     IN /\ r # NULL
        /\ x # NULL
        /\ mtx[x].owner = CallerTid(c)
        /\ req' = [req EXCEPT ![r].motor_waiting = cl[c].motor]
        /\ mtx' = [mtx EXCEPT ![x].owner = NoOwner]
  /\ cl' = [cl EXCEPT ![c].flag = 1]
  /\ cpc' = [cpc EXCEPT ![c] = "w_wait"]
  /\ UNCHANGED <<motorVars, pulserVars, cret, done, calls, env, axisVars, cfgVars, stop_returned, crashed, g>>

\* the loop condition of stepper_wait, inverted
KeepWaitingInverted(m) == ~stepper_is_busy(m)

\* whether the loop of stepper_wait goes on waiting
KeepWaiting(m) == stepper_is_busy(m)

\* pthread_mutex_lock(&motor->struct_mutex) (also on return from
\* pthread_cond_wait); while(stepper_is_busy(motor)) ...; otherwise unlock
W_Wait(c) ==
  /\ ~crashed
  /\ cpc[c] = "w_wait"
  /\ struct_mutex[cl[c].motor] = NoOwner
  /\ IF KeepWaiting(cl[c].motor)
       THEN /\ struct_mutex' = [struct_mutex EXCEPT ![cl[c].motor] = CallerTid(c)]
            /\ cpc' = [cpc EXCEPT ![c] = "w_condwait"]
       ELSE /\ UNCHANGED struct_mutex
            /\ cpc' = [cpc EXCEPT ![c] = "ret"]
  /\ UNCHANGED <<current_req, shared_mutex, curr_direction, half_period, steps,
                 stop, req_available, line_requested, heapVars, pulserVars, cl,
                 cret, done, calls, env, axisVars, cfgVars, stop_returned, crashed, g>>

\* pthread_cond_wait(&motor->wait_cv, &motor->struct_mutex): release and block
W_CondWait(c) ==
  /\ ~crashed
  /\ cpc[c] = "w_condwait"
  /\ struct_mutex' = [struct_mutex EXCEPT ![cl[c].motor] = NoOwner]
  /\ cpc' = [cpc EXCEPT ![c] = "w_blocked"]
  /\ UNCHANGED <<current_req, shared_mutex, curr_direction, half_period, steps,
                 stop, req_available, line_requested, heapVars, pulserVars, cl,
                 cret, done, calls, env, axisVars, cfgVars, stop_returned, crashed, g>>

\* POSIX allows pthread_cond_wait to return without a signal
W_SpuriousWake(c) ==
  /\ ~crashed
  /\ cpc[c] = "w_blocked"
  /\ cpc' = [cpc EXCEPT ![c] = "w_wait"]
  /\ UNCHANGED <<motorVars, heapVars, pulserVars, cl, cret, done, calls, env, axisVars, cfgVars, stop_returned, crashed, g>>

\* stepper_wait returns, and stepper_stop with it
W_Return(c) ==
  /\ ~crashed
  /\ cpc[c] = "ret"
  /\ Return(c, 0)
  /\ stop_returned' = IF cl[c].op = "stop" THEN [stop_returned EXCEPT ![cl[c].motor] = TRUE]
                ELSE stop_returned
  /\ g' = [r \in ReqIds |-> IF r \in cl[c].after
                              THEN [g[r] EXCEPT !.awaited = TRUE] ELSE g[r]]
  /\ UNCHANGED <<motorVars, heapVars, pulserVars, calls, env, axisVars, cfgVars, crashed>>

\* stepper_wait uses motor->shared_mutex or motor->current_req and it is NULL
\* or dangling, or unlocks a mutex it does not hold
CallerFaulty(c) ==
  \/ /\ cpc[c] = "w_lock"
     /\ BadMtx(shared_mutex[cl[c].motor])
  \/ /\ cpc[c] = "w_reg"
     /\ IF BadReq(current_req[cl[c].motor]) THEN TRUE
        ELSE IF BadMtx(shared_mutex[cl[c].motor]) THEN TRUE
        ELSE mtx[shared_mutex[cl[c].motor]].owner # CallerTid(c)

CallerFault(c) ==
  /\ ~crashed
  /\ CallerFaulty(c)
  /\ Die

\* an argument makes the call dereference a bad pointer: stepper_is_busy of a
\* NULL handle (motors[0] in step_multiple, motors[i] in set_speed_multiple,
\* both before the handle is compared with NULL), or the copy loop of
\* stepper_create_new_request running past the caller's array
ArgFaulty(c) ==
  \/ /\ cpc[c] = "sm_check"
     /\ ~ArgsRejected(c)
     /\ cl[c].motor = NULL
  \/ /\ cpc[c] = "sm_create"
     /\ FreeIds # {}
     /\ cl[c].count < 0
     /\ ~NullHandle(cl[c].list)
  \/ /\ cpc[c] = "ss_loop"
     /\ ~ArgsRejected(c)
     /\ cl[c].list[cl[c].i] = NULL

ArgFault(c) ==
  /\ ~crashed
  /\ ArgFaulty(c)
  /\ Die

(* ---- stepper_set_speed_multiple / stepper_set_speed ---- *)
\* stepper_set_speed_multiple with arguments a: the motors array (a.nolist: a
\* NULL pointer), the count and the speed pps
Call_SetSpeedMultiple(c, a) ==
  Enter(c, "ss_loop", [EmptyCl EXCEPT !.op = "set_speed", !.list = a.list,
                                      !.nolist = a.nolist, !.count = a.count,
                                      !.motor = IF Len(a.list) = 0 THEN NULL
                                                ELSE a.list[1],
                                      !.arg = a.pps, !.i = 1])

\* stepper_set_speed: the list is the one motor
Call_SetSpeed(c, m, pps) ==
  Call_SetSpeedMultiple(c, [list |-> <<m>>, nolist |-> FALSE, count |-> 1,
                            pps |-> pps])

\* the half period computed from the speed as passed, without the limit
HalfPeriodUnclamped(pps) == 500000 \div pps

\* half_period for a speed of pps pulses per second, limited to MAX_PPS
HalfPeriod(pps) == 500000 \div (IF pps > MAX_PPS THEN MAX_PPS ELSE pps)

\* whether a setter has to refuse motor m
Refuses(m) == stepper_is_busy(m)

\* validation, then for motors[i]: busy check and half_period = 500000/pps
SS_Loop(c) ==
  /\ ~crashed
  /\ cpc[c] = "ss_loop"
  /\ IF ArgsRejected(c)
       THEN /\ Return(c, -1)
            /\ UNCHANGED half_period
       ELSE LET k == cl[c].list[cl[c].i] IN
            /\ k # NULL
            /\ IF Refuses(k)
                 THEN /\ Return(c, -1)
                      /\ UNCHANGED half_period
                 ELSE /\ half_period' = [half_period EXCEPT
                                           ![k] = HalfPeriod(cl[c].arg)]
                      /\ IF cl[c].i < cl[c].count
                           THEN /\ cl' = [cl EXCEPT ![c].i = @ + 1]
                                /\ UNCHANGED <<cpc, cret, done>>
                           ELSE Return(c, 0)
  /\ UNCHANGED <<current_req, shared_mutex, curr_direction, steps, stop,
                 req_available, struct_mutex, line_requested, heapVars,
                 pulserVars, calls, env, axisVars, cfgVars, stop_returned, crashed, g>>

(* ---- stepper_set_direction_abs / stepper_set_direction_rel ---- *)
Call_SetDirectionAbs(c, m, d) ==
  Enter(c, "sd_check", [EmptyCl EXCEPT !.op = "set_direction_abs",
                                       !.motor = m, !.arg = d])

\* the absolute direction a relative direction stands for
RelToAbs(m, rel) == IF rel = DIRECTION_POSITIVE THEN pos_direction(m)
                    ELSE 1 - pos_direction(m)

Call_SetDirectionRel(c, m, rel) ==
  Enter(c, "sd_check", [EmptyCl EXCEPT !.op = "set_direction_rel",
                                       !.motor = m, !.arg = RelToAbs(m, rel)])

\* if(stepper_is_busy(motor)) goto exit
SD_Check(c) ==
  /\ ~crashed
  /\ cpc[c] = "sd_check"
  /\ IF Refuses(cl[c].motor)
       THEN Return(c, -1)
       ELSE /\ cpc' = [cpc EXCEPT ![c] = "sd_write"]
            /\ UNCHANGED <<cl, cret, done>>
  /\ UNCHANGED <<motorVars, heapVars, pulserVars, calls, env, axisVars, cfgVars, stop_returned, crashed, g>>

\* gpiod_line_set_value(motor->dir_pin, direction); motor->curr_direction = direction
SD_Write(c) ==
  /\ ~crashed
  /\ cpc[c] = "sd_write"
  /\ \E ok \in BOOLEAN :
       IF ok THEN /\ curr_direction' = [curr_direction EXCEPT ![cl[c].motor] = cl[c].arg]
                  /\ Return(c, 0)
             ELSE /\ UNCHANGED curr_direction
                  /\ Return(c, -1)
  /\ UNCHANGED <<current_req, shared_mutex, half_period, steps, stop,
                 req_available, struct_mutex, line_requested, heapVars,
                 pulserVars, calls, env, axisVars, cfgVars, stop_returned, crashed, g>>

\* stepper_step_multiple, from the call to its return
StepMultiple(c) ==
  \/ \E list \in env.lists, n \in env.counts : Call_StepMultiple(c, list, n)
  \/ SM_Check(c) \/ SM_Create(c) \/ SM_LinkReq(c) \/ SM_LinkMtx(c)
  \/ SM_Flag(c) \/ SM_Signal(c)

\* stepper_step_multiple called with any arguments, well-formed or not
StepMultipleArgs(c) ==
  \/ \E a \in env.stepargs : Call_StepMultipleArgs(c, a)
  \/ SM_Check(c) \/ SM_Create(c) \/ SM_LinkReq(c) \/ SM_LinkMtx(c)
  \/ SM_Flag(c) \/ SM_Signal(c)

\* stepper_set_speed_multiple called with any arguments
SetSpeedMultiple(c) ==
  \/ \E a \in env.speedargs : Call_SetSpeedMultiple(c, a)
  \/ SS_Loop(c)

(* ------------------------------------------------------------------ *)
(* Axis.c: one axis over the motors env.axis.motors                     *)
(* ------------------------------------------------------------------ *)
\* the Axis object: motors[], num_motors and mm_per_rotation as set by
\* axis_init, and microsteps_per_rotation of each motor as set by stepper_init
axis == env.axis

\* (unsigned int)(mm * (double)axis->motors[0]->microsteps_per_rotation /
\* axis->mm_per_rotation), for mm >= 0: the conversion drops the fraction
mm_to_steps(mm) ==
  (mm * axis.microsteps_per_rotation[axis.motors[1]]) \div axis.mm_per_rotation

\* some motor of the axis is busy
AxisBusy == \E k \in SeqRange(axis.motors) : stepper_is_busy(k)

\* an axis operation is called by controlling thread c
AxisEnter(c, pc, op, d) ==
  /\ ~crashed
  /\ cpc[c] = "idle"
  /\ apc[c] = "idle"
  /\ c \in env.callers
  /\ calls < env.maxcalls
  /\ calls' = calls + 1
  /\ apc' = [apc EXCEPT ![c] = pc]
  /\ al' = [al EXCEPT ![c] = [EmptyAl EXCEPT !.op = op, !.distance = d, !.arg = d,
                                             !.latch0 = reset_dir,
                                             !.dir0 = curr_direction,
                                             !.steps0 = IF env.record THEN steps
                                                        ELSE EmptyAl.steps0,
                                             !.busy0 = AxisBusy]]
  /\ UNCHANGED <<motorVars, heapVars, pulserVars, cpc, cl, cret, done, env, cfgVars,
                 reset_dir, alog, stop_returned, crashed, g>>

\* the axis operation returns v; the history keeps the accumulators only
\* where env.record asks for them
AxisReturn(c, v) ==
  /\ apc' = [apc EXCEPT ![c] = "idle"]
  /\ al' = [al EXCEPT ![c] = EmptyAl]
  /\ alog' = Append(alog, [op |-> al[c].op, arg |-> al[c].arg, ret |-> v,
                           latch0 |-> al[c].latch0, dir0 |-> al[c].dir0,
                           steps0 |-> al[c].steps0, busy0 |-> al[c].busy0,
                           latch1 |-> reset_dir, dir1 |-> curr_direction,
                           steps1 |-> IF env.record THEN steps ELSE al[c].steps0,
                           busy1 |-> AxisBusy])

\* the axis operation calls a stepper operation: the thread runs it from pc
Invoke(c, pc, locals) ==
  /\ cpc' = [cpc EXCEPT ![c] = pc]
  /\ cl' = [cl EXCEPT ![c] = locals]

\* the operations the controlling thread may call next: those of env.axisops,
\* or the next one of its program if it has one
AxisOps ==
  IF env.program = <<>> THEN env.axisops
  ELSE IF calls < Len(env.program) THEN {env.program[calls + 1]} ELSE {}

Call_AxisMove(c, d) == AxisEnter(c, "am_check", "axis_move", d)

\* the test distance == 0.0f, never true
ZeroDistanceNever(d) == FALSE

\* the test distance == 0.0f
ZeroDistance(d) == d = 0

\* axis_move: distance == 0 returns 0 at once
AM_Check(c) ==
  /\ ~crashed
  /\ apc[c] = "am_check"
  /\ IF ZeroDistance(al[c].distance)
       THEN /\ AxisReturn(c, 0)
            /\ UNCHANGED reset_dir
       ELSE /\ apc' = [apc EXCEPT ![c] = "am_latch"]
            /\ UNCHANGED <<al, alog, reset_dir>>
  /\ UNCHANGED <<motorVars, heapVars, pulserVars, callerVars, cfgVars, stop_returned,
                 crashed, g>>

\* the test of the latch, never true
NeedsResetNever(latch) == FALSE

\* if(axis->reset_dir)
NeedsReset(latch) == latch # 0

\* if(axis->reset_dir){ axis->reset_dir = 0; axis_set_direction(axis,
\* DIRECTION_POSITIVE) ... }
AM_Latch(c) ==
  /\ ~crashed
  /\ apc[c] = "am_latch"
  /\ IF NeedsReset(reset_dir)
       THEN /\ reset_dir' = 0
            /\ apc' = [apc EXCEPT ![c] = "asd_loop"]
            /\ al' = [al EXCEPT ![c].direction = DIRECTION_POSITIVE, ![c].i = 1,
                                ![c].next = "am_neg"]
       ELSE /\ apc' = [apc EXCEPT ![c] = "am_neg"]
            /\ UNCHANGED <<al, reset_dir>>
  /\ UNCHANGED <<motorVars, heapVars, pulserVars, callerVars, cfgVars, alog,
                 stop_returned, crashed, g>>

\* if(distance < 0){ distance = -distance; axis->reset_dir = 1;
\* axis_set_direction(axis, DIRECTION_NEGATIVE) ... }
AM_Neg(c) ==
  /\ ~crashed
  /\ apc[c] = "am_neg"
  /\ IF al[c].distance < 0
       THEN /\ reset_dir' = 1
            /\ apc' = [apc EXCEPT ![c] = "asd_loop"]
            /\ al' = [al EXCEPT ![c].distance = -al[c].distance,
                                ![c].direction = DIRECTION_NEGATIVE, ![c].i = 1,
                                ![c].next = "am_step"]
       ELSE /\ apc' = [apc EXCEPT ![c] = "am_step"]
            /\ UNCHANGED <<al, reset_dir>>
  /\ UNCHANGED <<motorVars, heapVars, pulserVars, callerVars, cfgVars, alog,
                 stop_returned, crashed, g>>

\* axis_set_direction: for(i < axis->num_motors)
\* stepper_set_direction_rel(axis->motors[i], direction); after the last motor
\* it returns 0 and axis_move goes on
ASD_Loop(c) ==
  /\ ~crashed
  /\ apc[c] = "asd_loop"
  /\ cpc[c] = "idle"
  /\ IF al[c].i <= axis.num_motors
       THEN /\ Invoke(c, "sd_check",
                      [EmptyCl EXCEPT !.op = "set_direction_rel",
                                      !.motor = axis.motors[al[c].i],
                                      !.arg = RelToAbs(axis.motors[al[c].i],
                                                       al[c].direction)])
            /\ apc' = [apc EXCEPT ![c] = "asd_ret"]
            /\ UNCHANGED al
       ELSE /\ apc' = [apc EXCEPT ![c] = al[c].next]
            /\ UNCHANGED <<al, cpc, cl>>
  /\ UNCHANGED <<motorVars, heapVars, pulserVars, cret, done, calls, env, cfgVars,
                 reset_dir, alog, stop_returned, crashed, g>>

\* if(stepper_set_direction_rel(...) < 0) goto exit: axis_set_direction
\* returns -1 and axis_move with it; otherwise the next motor
ASD_Ret(c) ==
  /\ ~crashed
  /\ apc[c] = "asd_ret"
  /\ cpc[c] = "idle"
  /\ IF cret[c] < 0
       THEN AxisReturn(c, -1)
       ELSE /\ apc' = [apc EXCEPT ![c] = "asd_loop"]
            /\ al' = [al EXCEPT ![c].i = @ + 1]
            /\ UNCHANGED alog
  /\ UNCHANGED <<motorVars, heapVars, pulserVars, callerVars, cfgVars, reset_dir,
                 stop_returned, crashed, g>>

\* steps = mm_to_steps(axis, distance);
\* stepper_step_multiple(axis->motors, steps, axis->num_motors)
AM_Step(c) ==
  /\ ~crashed
  /\ apc[c] = "am_step"
  /\ cpc[c] = "idle"
  /\ LET n == mm_to_steps(al[c].distance) IN
       /\ al' = [al EXCEPT ![c].steps = n]
       /\ Invoke(c, "sm_check",
                 [EmptyCl EXCEPT !.op = "step_multiple", !.list = axis.motors,
                                 !.count = axis.num_motors,
                                 !.motor = axis.motors[1], !.arg = n])
  /\ apc' = [apc EXCEPT ![c] = "am_ret"]
  /\ UNCHANGED <<motorVars, heapVars, pulserVars, cret, done, calls, env, cfgVars,
                 reset_dir, alog, stop_returned, crashed, g>>

\* axis_move returns -1 if stepper_step_multiple failed, 0 otherwise
AM_Ret(c) ==
  /\ ~crashed
  /\ apc[c] = "am_ret"
  /\ cpc[c] = "idle"
  /\ AxisReturn(c, IF cret[c] < 0 THEN -1 ELSE 0)
  /\ UNCHANGED <<motorVars, heapVars, pulserVars, callerVars, cfgVars, reset_dir,
                 stop_returned, crashed, g>>

\* axis_move, from the call to its return
AxisMove(c) ==
  \/ \E o \in AxisOps : o.op = "axis_move" /\ Call_AxisMove(c, o.distance)
  \/ AM_Check(c) \/ AM_Latch(c) \/ AM_Neg(c) \/ ASD_Loop(c) \/ ASD_Ret(c)
  \/ AM_Step(c) \/ AM_Ret(c)

Call_AxisWait(c) == AxisEnter(c, "aw_call", "axis_wait", 0)

\* stepper_wait(axis->motors[0])
AW_Call(c) ==
  /\ ~crashed
  /\ apc[c] = "aw_call"
  /\ cpc[c] = "idle"
  /\ LET m == axis.motors[1] IN
       Invoke(c, "w_check",
              [EmptyCl EXCEPT !.op = "wait", !.motor = m,
                              !.after = {r \in ReqIds : /\ req[r].live
                                                        /\ g[r].returned
                                                        /\ m \in Participants(r)}])
  /\ apc' = [apc EXCEPT ![c] = "aw_ret"]
  /\ UNCHANGED <<motorVars, heapVars, pulserVars, cret, done, calls, env, cfgVars,
                 reset_dir, al, alog, stop_returned, crashed, g>>

\* stepper_wait has returned, and axis_wait with it
AW_Ret(c) ==
  /\ ~crashed
  /\ apc[c] = "aw_ret"
  /\ cpc[c] = "idle"
  /\ AxisReturn(c, 0)
  /\ UNCHANGED <<motorVars, heapVars, pulserVars, callerVars, cfgVars, reset_dir,
                 stop_returned, crashed, g>>

\* axis_wait, from the call to its return
AxisWait(c) ==
  \/ \E o \in AxisOps : o.op = "axis_wait" /\ Call_AxisWait(c)
  \/ AW_Call(c) \/ AW_Ret(c)

\* the stepper operations an axis operation runs on the calling thread
AxisCallees(c) ==
  \/ SD_Check(c) \/ SD_Write(c)
  \/ SM_Check(c) \/ SM_Create(c) \/ SM_LinkReq(c) \/ SM_LinkMtx(c)
  \/ SM_Flag(c) \/ SM_Signal(c)
  \/ W_Check(c) \/ W_Lock(c) \/ W_Reg(c) \/ W_Wait(c) \/ W_CondWait(c)
  \/ W_Return(c) \/ W_SpuriousWake(c)

\* stepper_stop, up to its call of stepper_wait
Stop(c) ==
  \/ \E m \in env.motors : Call_Stop(c, m)
  \/ ST_Read(c) \/ ST_Set(c) \/ ST_Test(c)

\* stepper_wait, called directly or by stepper_stop
Wait(c) ==
  \/ \E m \in env.motors : Call_Wait(c, m)
  \/ W_Check(c) \/ W_Lock(c) \/ W_Reg(c) \/ W_Wait(c) \/ W_CondWait(c)
  \/ W_Return(c) \/ W_SpuriousWake(c) \/ CallerFault(c)

\* stepper_set_speed, from the call to its return
SetSpeed(c) ==
  \/ \E m \in env.motors, pps \in PpsInputs : Call_SetSpeed(c, m, pps)
  \/ SS_Loop(c)

\* stepper_set_direction_abs and stepper_set_direction_rel
SetDirection(c) ==
  \/ \E m \in env.motors, d \in {DIRECTION_COUNTERCLOCKWISE, DIRECTION_CLOCKWISE} :
       Call_SetDirectionAbs(c, m, d)
  \/ \E m \in env.motors, rel \in {DIRECTION_NEGATIVE, DIRECTION_POSITIVE} :
       Call_SetDirectionRel(c, m, rel)
  \/ SD_Check(c) \/ SD_Write(c)

\* the pulser workers
Workers ==
  \/ \E m \in Motors : Pulser(m)
  \/ \E m \in Motors : P_SpuriousWake(m)

(* ------------------------------------------------------------------ *)
(* config.c: the parser of the motor configuration file                 *)
(* ------------------------------------------------------------------ *)
\* a character is a string of length one; NUL is the terminator '\0'
NUL == ""
Lower == {"a", "b", "c", "d", "e", "f", "g", "h", "i", "j", "k", "l", "m",
          "n", "o", "p", "q", "r", "s", "t", "u", "v", "w", "x", "y", "z"}
Upper == {"A", "B", "C", "D", "E", "F", "G", "H", "I", "J", "K", "L", "M",
          "N", "O", "P", "Q", "R", "S", "T", "U", "V", "W", "X", "Y", "Z"}
DigitValue == [c \in {"0", "1", "2", "3", "4", "5", "6", "7", "8", "9"} |->
                CASE c = "0" -> 0 [] c = "1" -> 1 [] c = "2" -> 2 [] c = "3" -> 3
                  [] c = "4" -> 4 [] c = "5" -> 5 [] c = "6" -> 6 [] c = "7" -> 7
                  [] c = "8" -> 8 [] c = "9" -> 9]
Digits == DOMAIN DigitValue
\* isblank(c), and the characters that end a line's content
Blank == {" ", "\t"}
LineEnd == Blank \cup {"#", "\n"}
\* characters of a value and of a motor name: isalnum(c), '-' and '_'
ValueChars == Lower \cup Upper \cup Digits \cup {"-", "_"}

\* buff[off] for a 0-based offset; the string is followed by its terminator
CharAt(buff, off) == IF off < Len(buff) THEN buff[off + 1] ELSE NUL

\* the scanning loop of the state_read_* routines: the offset of the first
\* character at or after off that is not in class, but no further than the
\* PARAM_MAX_LEN - 1 characters the buffer takes
RECURSIVE Span(_, _, _, _)
Span(buff, off, class, room) ==
  IF room > 0 /\ CharAt(buff, off) \in class
    THEN Span(buff, off + 1, class, room - 1) ELSE off

\* strncmp(a, b, n) == 0
StrNEq(a, b, n) ==
  LET shorter == IF Len(a) < Len(b) THEN Len(a) ELSE Len(b)
      k == IF n < shorter + 1 THEN n ELSE shorter + 1
  IN \A i \in 0..(k - 1) : CharAt(a, i) = CharAt(b, i)

\* the value of a string of digits as a long of 64 bits, held in four limbs
\* of 16 bits (l[1] the lowest); over: the value does not fit in a long
RECURSIVE Decimal(_)
Decimal(s) ==
  IF s = <<>> THEN [l |-> <<0, 0, 0, 0>>, over |-> FALSE]
  ELSE LET a == Decimal(SubSeq(s, 1, Len(s) - 1))
           c1 == 10 * a.l[1] + DigitValue[s[Len(s)]]
           c2 == 10 * a.l[2] + c1 \div 65536
           c3 == 10 * a.l[3] + c2 \div 65536
           c4 == 10 * a.l[4] + c3 \div 65536
       IN [l |-> <<c1 % 65536, c2 % 65536, c3 % 65536, c4 % 65536>>,
           over |-> a.over \/ c4 >= 32768]

\* atoi of a string of digits: (int) strtol(s, NULL, 10), that is LONG_MAX
\* for a value that does not fit in a long, and the low 32 bits of the long
\* as a signed int
atoi(s) ==
  LET a == Decimal(s)
  IN IF a.over THEN -1
     ELSE IF a.l[2] >= 32768 THEN (a.l[2] - 65536) * 65536 + a.l[1]
     ELSE a.l[2] * 65536 + a.l[1]

\* str_to_int: -1 unless s only contains digits
str_to_int(s) == IF \A i \in 1..Len(s) : s[i] \in Digits THEN atoi(s) ELSE -1

\* str_to_dir
str_to_dir(s) ==
  IF StrNEq(s, <<"c", "o", "u", "n", "t", "e", "r", "c", "l", "o", "c", "k", "w",
                 "i", "s", "e">>, 16) THEN DIRECTION_COUNTERCLOCKWISE
  ELSE IF StrNEq(s, <<"c", "l", "o", "c", "k", "w", "i", "s", "e">>, 16)
    THEN DIRECTION_CLOCKWISE
  ELSE DIRECTION_INVALID

\* int_to_gpio_pin: the line number of header pin p (the low byte of the
\* J21_HEADER_PIN constant; the controller flag in the top bits is left out),
\* INVALID_PIN for any other p
J21Line == [p \in {7, 8, 10, 11, 12, 13, 16, 18, 19, 21, 23, 24, 29, 31, 32, 33,
                   35, 36, 37, 38, 40} |->
             CASE p = 7 -> 76 [] p = 8 -> 144 [] p = 10 -> 145 [] p = 11 -> 146
               [] p = 12 -> 72 [] p = 13 -> 77 [] p = 16 -> 40 [] p = 18 -> 161
               [] p = 19 -> 109 [] p = 21 -> 108 [] p = 23 -> 107 [] p = 24 -> 110
               [] p = 29 -> 78 [] p = 31 -> 42 [] p = 32 -> 41 [] p = 33 -> 69
               [] p = 35 -> 75 [] p = 36 -> 147 [] p = 37 -> 68 [] p = 38 -> 74
               [] p = 40 -> 73]
int_to_gpio_pin(p) == IF p \in DOMAIN J21Line THEN J21Line[p] ELSE INVALID_PIN

is_valid_microstep(u) == u \in {1, 2, 4, 8, 16}

\* the parameter validation of stepper_init (the name is never NULL here):
\* FALSE when it returns NULL before anything is allocated
stepper_init_valid(microstep, steps_per_rotation, init_dir) ==
  /\ is_valid_microstep(microstep)
  /\ steps_per_rotation # 0
  /\ init_dir \in {DIRECTION_CLOCKWISE, DIRECTION_COUNTERCLOCKWISE}

\* motor_params / axis_params with motor_params_id / axis_params_id; the
\* length compared is the length of the table's string
motor_params ==
  <<[str |-> <<"n", "a", "m", "e">>, id |-> "MOTOR_NAME"],
    [str |-> <<"s", "t", "e", "p", "_", "p", "i", "n">>, id |-> "STEP_PIN"],
    [str |-> <<"d", "i", "r", "_", "p", "i", "n">>, id |-> "DIR_PIN"],
    [str |-> <<"s", "t", "e", "p", "s", "_", "p", "e", "r", "_", "r", "o", "t",
               "a", "t", "i", "o", "n">>, id |-> "STEPS_ROT"],
    [str |-> <<"d", "i", "r", "e", "c", "t", "i", "o", "n">>, id |-> "DIRECTION"],
    [str |-> <<"m", "i", "c", "r", "o", "s", "t", "e", "p">>, id |-> "MICROSTEP"]>>
axis_params ==
  <<[str |-> <<"n", "a", "m", "e">>, id |-> "AXIS_NAME"],
    [str |-> <<"m", "o", "t", "o", "r", "s">>, id |-> "MOTOR_LIST"],
    [str |-> <<"m", "m", "_", "p", "e", "r", "_", "r", "o", "t", "a", "t", "i",
               "o", "n">>, id |-> "MM_ROT"]>>

\* get_motor_node_by_name with the comparison of the names left out: the
\* first entry of the list, whatever its name
get_first_motor_node(name) == IF motor_list_len >= 1 THEN 1 ELSE NULL

\* get_motor_node_by_name: the index of the first of the motor_list_len
\* entries whose name is name, NULL if there is none
get_motor_node_by_name(name) ==
  LET hits == {i \in 1..motor_list_len :
                 StrNEq(name, motor_list[i].name, MOTOR_NAME_LEN)}
  IN IF hits = {} THEN NULL ELSE CHOOSE i \in hits : \A j \in hits : i <= j

\* get_axis_node_by_name: the index of the first entry of axis_list whose name
\* is name, NULL if there is none; the loop runs over motor_list_len entries
get_axis_node_by_name(name) ==
  LET hits == {i \in 1..motor_list_len :
                 StrNEq(name, axis_list[i].name, MOTOR_NAME_LEN)}
  IN IF hits = {} THEN NULL ELSE CHOOSE i \in hits : \A j \in hits : i <= j

\* get_motor_by_name, get_axis_by_name: the handle of the entry found
get_motor_by_name(name) ==
  LET node == get_motor_node_by_name(name)
  IN IF node # NULL THEN motor_list[node].motor ELSE NULL

get_axis_by_name(name) ==
  LET node == get_axis_node_by_name(name)
  IN IF node # NULL THEN axis_list[node].axis ELSE NULL

\* read_motor_config: open the file, clear the lists, start the state machine
\* (motor_config_state = CLEANUP); -1 if the file cannot be opened
ReadMotorConfig ==
  /\ sm.phase = "idle"
  /\ \E opened \in BOOLEAN :
       IF opened
         THEN /\ motor_list' = [i \in 1..MOTOR_LIST_SIZE_MAX |->
                                 [EmptyMotorConfig EXCEPT !.direction = DIRECTION_INVALID]]
              /\ axis_list' = [i \in 1..MOTOR_LIST_SIZE_MAX |-> EmptyAxisConfig]
              /\ motor_config_state' = "CLEANUP"
              /\ sm' = [EmptySm EXCEPT !.phase = "parsing", !.config_file = 1]
              /\ UNCHANGED retval
         ELSE /\ sm' = [sm EXCEPT !.phase = "returned"]
              /\ retval' = -1
              /\ UNCHANGED <<motor_list, axis_list, motor_config_state>>
  /\ UNCHANGED <<motorVars, heapVars, pulserVars, callerVars, axisVars,
                 motor_list_len, axis_list_len, coreVars, crashed, g,
                 stop_returned>>

\* what a routine of the state machine leaves alone besides the parser's own
\* variables
Parsing(state) ==
  /\ ~crashed
  /\ sm.phase = "parsing"
  /\ motor_config_state = state
  /\ UNCHANGED <<motorVars, heapVars, pulserVars, callerVars, axisVars, retval,
                 coreVars, crashed, g, stop_returned>>

\* case CLEANUP
CleanUp ==
  /\ Parsing("CLEANUP")
  /\ sm' = [sm EXCEPT !.line_buff = <<>>, !.offset = 0, !.param = <<>>,
                      !.value = <<>>, !.err_str = NUL]
  /\ motor_config_state' = "READ_LINE"
  /\ UNCHANGED <<motor_list, motor_list_len, axis_list, axis_list_len>>

\* state_read_line: getline fails, or the file has ended, or a line was read
state_read_line ==
  /\ Parsing("READ_LINE")
  /\ \E failed \in BOOLEAN :
       IF failed
         THEN /\ motor_config_state' = "ERROR"
              /\ UNCHANGED sm
       ELSE IF sm.pos >= Len(env.file)
         THEN /\ motor_config_state' = "FINISHED"
              /\ UNCHANGED sm
       ELSE /\ motor_config_state' = "READ_PARAM"
            /\ sm' = [sm EXCEPT !.line_buff = env.file[sm.pos + 1], !.pos = @ + 1]
  /\ UNCHANGED <<motor_list, motor_list_len, axis_list, axis_list_len>>

\* state_read_param
state_read_param ==
  /\ Parsing("READ_PARAM")
  /\ LET e == Span(sm.line_buff, sm.offset, Lower \cup {"_"}, PARAM_MAX_LEN - 1)
         c == CharAt(sm.line_buff, e)
     IN /\ motor_config_state' =
             IF c \in Lower \cup {"_"} THEN "ERROR"
             ELSE IF c = "=" THEN "CHECK_PARAM"
             ELSE IF c = "[" THEN "READ_IDENTIFIER"
             ELSE IF c \in LineEnd THEN "CLEANUP"
             ELSE "ERROR"
        /\ sm' = [sm EXCEPT !.param = SubSeq(sm.line_buff, sm.offset + 1, e),
                            !.offset = e + 1,
                            !.err_str = IF c \in Lower \cup LineEnd \cup {"_", "=", "["}
                                          THEN NUL ELSE c]
  /\ UNCHANGED <<motor_list, motor_list_len, axis_list, axis_list_len>>

\* state_read_identifier
state_read_identifier ==
  /\ Parsing("READ_IDENTIFIER")
  /\ LET e == Span(sm.line_buff, sm.offset, Lower, PARAM_MAX_LEN - 1)
         c == CharAt(sm.line_buff, e)
     IN /\ motor_config_state' = IF c = "]" THEN "SET_IDENTIFIER" ELSE "ERROR"
        /\ sm' = [sm EXCEPT !.param = SubSeq(sm.line_buff, sm.offset + 1, e),
                            !.offset = e + 1,
                            !.err_str = IF c \in Lower \cup {"]"} THEN NUL ELSE c]
  /\ UNCHANGED <<motor_list, motor_list_len, axis_list, axis_list_len>>

\* state_set_identifier
state_set_identifier ==
  /\ Parsing("SET_IDENTIFIER")
  /\ IF StrNEq(sm.param, <<"m", "o", "t", "o", "r">>, 5)
       THEN /\ sm' = [sm EXCEPT !.last_id = "MOTOR"]
            /\ motor_list_len' = motor_list_len + 1
            /\ motor_config_state' = "CLEANUP"
            /\ UNCHANGED axis_list_len
     ELSE IF StrNEq(sm.param, <<"a", "x", "i", "s">>, 4)
       THEN /\ sm' = [sm EXCEPT !.last_id = "AXIS"]
            /\ axis_list_len' = axis_list_len + 1
            /\ motor_config_state' = "CLEANUP"
            /\ UNCHANGED motor_list_len
     ELSE /\ sm' = [sm EXCEPT !.last_id = "INVALID_TYPE"]
          /\ motor_config_state' = "ERROR"
          /\ UNCHANGED <<motor_list_len, axis_list_len>>
  /\ UNCHANGED <<motor_list, axis_list>>

\* state_check_param
state_check_param ==
  /\ Parsing("CHECK_PARAM")
  /\ LET table == IF sm.last_id = "MOTOR" THEN motor_params ELSE axis_params
         hits == {i \in 1..Len(table) :
                    StrNEq(sm.param, table[i].str, Len(table[i].str))}
     IN IF sm.last_id \notin {"MOTOR", "AXIS"}
          THEN /\ motor_config_state' = "ERROR"
               /\ sm' = [sm EXCEPT !.param_id = "INVALID_PARAM"]
        ELSE IF StrNEq(sm.param, <<"m", "o", "t", "o", "r", "s">>, 6)
          THEN /\ motor_config_state' = "READ_MOTOR_LIST"
               /\ sm' = [sm EXCEPT !.param_id = "MOTOR_LIST"]
        ELSE IF hits # {}
          THEN /\ motor_config_state' = "READ_VALUE"
               /\ sm' = [sm EXCEPT !.param_id =
                           table[CHOOSE i \in hits : \A j \in hits : i <= j].id]
        ELSE /\ motor_config_state' = "ERROR"
             /\ sm' = [sm EXCEPT !.param_id = "INVALID_PARAM"]
  /\ UNCHANGED <<motor_list, motor_list_len, axis_list, axis_list_len>>

\* state_read_value
state_read_value ==
  /\ Parsing("READ_VALUE")
  /\ LET e == Span(sm.line_buff, sm.offset, ValueChars, PARAM_MAX_LEN - 1)
         c == CharAt(sm.line_buff, e)
     IN /\ motor_config_state' =
             IF c \in ValueChars THEN "ERROR"
             ELSE IF c \in LineEnd THEN "SET_PARAM"
             ELSE "ERROR"
        /\ sm' = [sm EXCEPT !.value = SubSeq(sm.line_buff, sm.offset + 1, e),
                            !.offset = e + 1,
                            !.err_str = IF c \in ValueChars \cup LineEnd
                                          THEN NUL ELSE c]
  /\ UNCHANGED <<motor_list, motor_list_len, axis_list, axis_list_len>>

\* state_set_param, per parameter: whether the value is taken, and the field
\* and the value that are stored then
Accepted(id, value) ==
  LET n == str_to_int(value)
  IN CASE id \in {"MOTOR_NAME", "AXIS_NAME", "MOTOR_LIST"} -> TRUE
       [] id \in {"STEP_PIN", "DIR_PIN"} -> n > 0 /\ int_to_gpio_pin(n) # INVALID_PIN
       [] id \in {"STEPS_ROT", "MM_ROT"} -> n > 0
       [] id = "DIRECTION" -> str_to_dir(value) # DIRECTION_INVALID
       [] id = "MICROSTEP" -> n > 0 /\ is_valid_microstep(n)
       [] id = "INVALID_PARAM" -> FALSE

ParamField(id) ==
  CASE id \in {"MOTOR_NAME", "AXIS_NAME"} -> "name"
    [] id = "STEP_PIN" -> "step_pin" [] id = "DIR_PIN" -> "dir_pin"
    [] id = "STEPS_ROT" -> "steps_rot" [] id = "DIRECTION" -> "direction"
    [] id = "MICROSTEP" -> "microstep" [] id = "MM_ROT" -> "mm_rot"

StoredValue(id, value) ==
  CASE id \in {"MOTOR_NAME", "AXIS_NAME"} ->
         SubSeq(value, 1, IF Len(value) < MOTOR_NAME_LEN - 1 THEN Len(value)
                          ELSE MOTOR_NAME_LEN - 1)
    [] id \in {"STEP_PIN", "DIR_PIN"} -> int_to_gpio_pin(str_to_int(value))
    [] id = "DIRECTION" -> str_to_dir(value)
    [] id \in {"STEPS_ROT", "MICROSTEP", "MM_ROT"} -> str_to_int(value)

\* the parameters of a motor
MotorParamIds == {motor_params[i].id : i \in 1..Len(motor_params)}

\* state_set_param: the value is stored in the last entry of its list
\* (motor_list[motor_list_len-1] or axis_list[axis_list_len-1]), or it is
\* refused. Neither index is checked: a store outside the list changes none
\* of its entries
state_set_param ==
  /\ Parsing("SET_PARAM")
  /\ LET id == sm.param_id
     IN IF id = "MOTOR_LIST"
          THEN /\ motor_config_state' = "CLEANUP"
               /\ UNCHANGED <<motor_list, axis_list>>
        ELSE IF ~Accepted(id, sm.value)
          THEN /\ motor_config_state' = "ERROR"
               /\ UNCHANGED <<motor_list, axis_list>>
        ELSE IF id \in MotorParamIds
          THEN /\ motor_config_state' = "CLEANUP"
               /\ motor_list' =
                    IF motor_list_len \in 1..MOTOR_LIST_SIZE_MAX
                      THEN [motor_list EXCEPT ![motor_list_len][ParamField(id)] =
                                                StoredValue(id, sm.value)]
                      ELSE motor_list
               /\ UNCHANGED axis_list
        ELSE /\ motor_config_state' = "CLEANUP"
             /\ axis_list' =
                  IF axis_list_len \in 1..MOTOR_LIST_SIZE_MAX
                    THEN [axis_list EXCEPT ![axis_list_len][ParamField(id)] =
                                            StoredValue(id, sm.value)]
                    ELSE axis_list
             /\ UNCHANGED motor_list
  /\ UNCHANGED <<sm, motor_list_len, axis_list_len>>

\* the loop of state_read_motor_list from offset off on, the names found so
\* far being the motors found[]: each round reads a name up to a comma or the
\* end of the line and looks it up in motor_list
RECURSIVE ReadMotorList(_, _, _)
ReadMotorList(buff, off, found) ==
  LET e == Span(buff, off, ValueChars, PARAM_MAX_LEN - 1)
      c == CharAt(buff, e)
      name == SubSeq(buff, off + 1, e)
      error == c \in ValueChars \/ c \notin LineEnd \cup {","}
      node == get_motor_node_by_name(name)
      failure == [state |-> "ERROR", offset |-> e + 1, value |-> name,
                  found |-> found,
                  err_str |-> IF c \in ValueChars \cup LineEnd \cup {","}
                                THEN NUL ELSE c]
  IN IF error \/ e = off THEN failure
     ELSE IF node = NULL THEN failure
     ELSE IF c = ","
       THEN ReadMotorList(buff, e + 1, Append(found, node))
     ELSE [state |-> "CLEANUP", offset |-> e + 1, value |-> name,
           found |-> Append(found, node), err_str |-> NUL]

\* the entry axis_list[axis_list_len-1] as state_read_motor_list reads it;
\* outside the list it is taken to be zeroed memory
LastAxis == IF axis_list_len \in 1..MOTOR_LIST_SIZE_MAX THEN axis_list[axis_list_len]
            ELSE EmptyAxisConfig

\* state_read_motor_list: the motors found are added to the last axis entry,
\* motors[count++] = node, with no check of count or of axis_list_len
\* (motors here keeps every node stored, also those past motors[7])
state_read_motor_list ==
  /\ Parsing("READ_MOTOR_LIST")
  /\ LET r == ReadMotorList(sm.line_buff, sm.offset, LastAxis.motors)
     IN /\ motor_config_state' = r.state
        /\ sm' = [sm EXCEPT !.offset = r.offset, !.value = r.value,
                            !.err_str = r.err_str]
        /\ axis_list' =
             IF axis_list_len \in 1..MOTOR_LIST_SIZE_MAX
               THEN [axis_list EXCEPT ![axis_list_len].motors = r.found,
                                      ![axis_list_len].count = Len(r.found)]
               ELSE axis_list
  /\ UNCHANGED <<motor_list, motor_list_len, axis_list_len>>

\* the next step stores or reads outside motor_list, axis_list, an entry's
\* motors[] or the motors[] of init_motors
ParserFaulty ==
  \/ /\ sm.phase = "parsing"
     /\ motor_config_state = "SET_PARAM"
     /\ sm.param_id # "MOTOR_LIST"
     /\ Accepted(sm.param_id, sm.value)
     /\ IF sm.param_id \in MotorParamIds
          THEN motor_list_len \notin 1..MOTOR_LIST_SIZE_MAX
          ELSE axis_list_len \notin 1..MOTOR_LIST_SIZE_MAX
  \/ /\ sm.phase = "parsing"
     /\ motor_config_state = "READ_MOTOR_LIST"
     /\ LET r == ReadMotorList(sm.line_buff, sm.offset, LastAxis.motors)
        IN /\ r.found # LastAxis.motors
           /\ \/ axis_list_len \notin 1..MOTOR_LIST_SIZE_MAX
              \/ Len(r.found) > MOTOR_LIST_SIZE_MAX
  \/ /\ sm.phase = "init"
     /\ \/ motor_list_len > MOTOR_LIST_SIZE_MAX
        \/ axis_list_len > MOTOR_LIST_SIZE_MAX
        \/ \E i \in 1..MOTOR_LIST_SIZE_MAX : axis_list[i].count > MOTOR_LIST_SIZE_MAX

\* one outcome of such an access: the process dies
ParserFault ==
  /\ ~crashed
  /\ ParserFaulty
  /\ crashed' = TRUE
  /\ UNCHANGED <<motorVars, heapVars, pulserVars, callerVars, axisVars, cfgVars,
                 g, stop_returned>>

\* case FINISHED: the state machine returns 0 and read_motor_config goes on
\* to init_motors
ParserFinished ==
  /\ Parsing("FINISHED")
  /\ sm' = [sm EXCEPT !.line_buff = <<>>, !.error = 0, !.phase = "init"]
  /\ UNCHANGED <<motor_config_state, motor_list, motor_list_len, axis_list,
                 axis_list_len>>

\* a validation that takes every entry
validate_any_node(node) == TRUE

validate_motor_node(node) ==
  /\ node.dir_pin # 0 /\ node.step_pin # 0
  /\ node.direction # DIRECTION_INVALID
  /\ node.name # <<>>
  /\ node.steps_rot # 0 /\ node.microstep # 0

validate_axis_node(node) == node.count > 0 /\ node.mm_rot > 0

\* the entries init_motors gets to: motors 1..motor_list_len, then axes
\* 1..axis_list_len, up to the first one that is not fully configured
ValidMotors ==
  {i \in 1..motor_list_len : \A j \in 1..i : validate_motor_node(motor_list[j])}
ValidAxes ==
  IF ValidMotors # 1..motor_list_len THEN {}
  ELSE {i \in 1..axis_list_len : \A j \in 1..i : validate_axis_node(axis_list[j])}

\* init_motors, and read_motor_config returns what it returns: the motors and
\* then the axes are constructed in the order of the lists, until an entry is
\* not fully configured or a construction fails (the fails-th one; 0: none)
init_motors ==
  /\ sm.phase = "init"
  /\ ~crashed
  /\ motor_list_len <= MOTOR_LIST_SIZE_MAX
  /\ axis_list_len <= MOTOR_LIST_SIZE_MAX
  /\ \A i \in 1..MOTOR_LIST_SIZE_MAX : axis_list[i].count <= MOTOR_LIST_SIZE_MAX
  /\ \E fails \in 0..(Cardinality(ValidMotors) + Cardinality(ValidAxes)) :
       /\ \A i \in ValidMotors :
            ~stepper_init_valid(motor_list[i].microstep, motor_list[i].steps_rot,
                                motor_list[i].direction) => fails \in 1..i
       /\ LET built(k) == fails = 0 \/ k < fails
              nm == Cardinality(ValidMotors)
          IN /\ motor_list' = [i \in 1..MOTOR_LIST_SIZE_MAX |->
                                 IF i \in ValidMotors /\ built(i)
                                   THEN [motor_list[i] EXCEPT !.motor = i]
                                   ELSE motor_list[i]]
             /\ axis_list' = [i \in 1..MOTOR_LIST_SIZE_MAX |->
                                IF i \in ValidAxes /\ built(nm + i)
                                  THEN [axis_list[i] EXCEPT !.axis = i]
                                  ELSE axis_list[i]]
             /\ retval' = IF /\ fails = 0
                             /\ ValidMotors = 1..motor_list_len
                             /\ ValidAxes = 1..axis_list_len
                            THEN 0 ELSE -1
  /\ sm' = [sm EXCEPT !.phase = "returned"]
  /\ UNCHANGED <<motorVars, heapVars, pulserVars, callerVars, axisVars,
                 motor_config_state, motor_list_len, axis_list_len, coreVars,
                 crashed, g, stop_returned>>

\* case ERROR: fputs(err_str, stderr); fputs("\n", stderr); the state machine
\* returns 1 and read_motor_config -1, without calling init_motors
ParserError ==
  /\ ~crashed
  /\ sm.phase = "parsing"
  /\ motor_config_state = "ERROR"
  /\ sm' = [sm EXCEPT !.line_buff = <<>>, !.error = 1, !.phase = "returned",
                      !.stderr = @ + 1 + (IF sm.err_str = "\n" THEN 1 ELSE 0)]
  /\ retval' = -1
  /\ UNCHANGED <<motorVars, heapVars, pulserVars, callerVars, axisVars,
                 motor_config_state, motor_list, motor_list_len, axis_list,
                 axis_list_len, coreVars, crashed, g, stop_returned>>

\* motor_config_state_machine, one routine per step
motor_config_state_machine ==
  \/ CleanUp \/ state_read_line \/ state_read_param \/ state_read_identifier
  \/ state_set_identifier \/ state_check_param \/ state_read_value
  \/ state_set_param \/ state_read_motor_list \/ ParserFinished \/ ParserError

(* ------------------------------------------------------------------ *)
(* The system                                                           *)
(* ------------------------------------------------------------------ *)
\* one controlling thread that may call every operation on every motor
Init ==
  /\ Machine
  /\ env = [record |-> FALSE, callers |-> {1}, lists |-> MotorLists, motors |-> Motors,
            counts |-> 1..MaxReqSteps, maxcalls |-> MaxCalls,
            acccap |-> MaxCalls * MaxReqSteps]

Next ==
  \/ Workers
  \/ \E m \in Motors : PulserFault(m)
  \/ \E c \in Callers : StepMultiple(c) \/ Stop(c) \/ Wait(c)
  \/ \E c \in Callers : SetSpeed(c) \/ SetDirection(c)

Spec == Init /\ [][Next]_vars

\* one controlling thread drives motor 1 alone: it starts, stops and awaits
\* motions
InitSolo ==
  /\ Machine
  /\ env = [record |-> FALSE, callers |-> {1}, lists |-> {<<1>>}, motors |-> {1},
            counts |-> {1, MaxReqSteps}, maxcalls |-> MaxCallsSolo,
            acccap |-> MaxCallsSolo * MaxReqSteps]

NextMotion ==
  \/ Workers
  \/ \E c \in Callers : StepMultiple(c) \/ Stop(c) \/ Wait(c)

SpecSolo == InitSolo /\ [][NextMotion]_vars

\* two controlling threads drive the two motors as one pair, motor 1 first
InitPair ==
  /\ Machine
  /\ env = [record |-> FALSE, callers |-> {1, 2}, lists |-> {<<1, 2>>}, motors |-> Motors,
            counts |-> {1, MaxReqSteps}, maxcalls |-> MaxCallsPair,
            acccap |-> MaxCallsPair * MaxReqSteps]

SpecPair == InitPair /\ [][NextMotion]_vars

\* the same two threads, which only start and await motions
NextAwait ==
  \/ Workers
  \/ \E c \in Callers : StepMultiple(c) \/ Wait(c)

SpecWatch == InitPair /\ [][NextAwait]_vars

\* one controlling thread moves motor 1 alone and as the second motor of the
\* pair <<2, 1>>, awaits motor 1 and sets its speed
InitOverlap ==
  /\ Machine
  /\ env = [record |-> FALSE, callers |-> {1}, lists |-> {<<1>>, <<2, 1>>}, motors |-> {1},
            counts |-> {MaxReqSteps}, maxcalls |-> MaxCallsOverlap,
            acccap |-> AccCapOverlap]

NextOverlap ==
  \/ Workers
  \/ \E m \in Motors : PulserFault(m)
  \/ \E c \in Callers : StepMultiple(c) \/ Wait(c) \/ SetSpeed(c)

SpecOverlap == InitOverlap /\ [][NextOverlap]_vars

\* the steps a thread takes inside step_multiple and wait once it has made the
\* call: the scheduler runs every thread that can run
CallerRuns(c) ==
  \/ SM_Check(c) \/ SM_Create(c) \/ SM_LinkReq(c) \/ SM_LinkMtx(c)
  \/ SM_Flag(c) \/ SM_Signal(c)
  \/ W_Check(c) \/ W_Lock(c) \/ W_Reg(c) \/ W_Wait(c) \/ W_CondWait(c)
  \/ W_Return(c)

\* two controlling threads start one motion of the pair and await its motors;
\* every worker and every thread inside a call keeps running and gets a mutex
\* that is free again and again, while wake-ups without a signal are not
\* promised
InitBoth ==
  /\ Machine
  /\ env = [record |-> FALSE, callers |-> {1, 2}, lists |-> {<<1, 2>>}, motors |-> Motors,
            counts |-> {1}, maxcalls |-> MaxCallsBoth, acccap |-> MaxCallsBoth]

\* stepper_wait called by thread c on the motor of its own number
AwaitOwn(c) ==
  \/ Call_Wait(c, c)
  \/ W_Check(c) \/ W_Lock(c) \/ W_Reg(c) \/ W_Wait(c) \/ W_CondWait(c)
  \/ W_Return(c) \/ W_SpuriousWake(c) \/ CallerFault(c)

\* thread 1 starts the motion; each thread awaits its own motor
NextBoth ==
  \/ Workers
  \/ StepMultiple(1)
  \/ \E c \in Callers : AwaitOwn(c)

SpecBoth ==
  /\ InitBoth /\ [][NextBoth]_vars
  /\ \A m \in Motors : SF_vars(Pulser(m))
  /\ \A c \in Callers : SF_vars(CallerRuns(c))

\* one controlling thread moves motor 1 alone, awaits it and turns its
\* direction between motions
InitTurn ==
  /\ Machine
  /\ env = [record |-> FALSE, callers |-> {1}, lists |-> {<<1>>}, motors |-> {1},
            counts |-> {1, MaxReqSteps}, maxcalls |-> MaxCallsTurn,
            acccap |-> MaxCallsTurn * MaxReqSteps]

NextTurn ==
  \/ Workers
  \/ \E c \in Callers : StepMultiple(c) \/ Wait(c) \/ SetDirection(c)

SpecTurn == InitTurn /\ [][NextTurn]_vars

\* one controlling thread calls step_multiple and set_speed_multiple with
\* arbitrary arguments, valid or not, and awaits motor 2; completed calls are
\* recorded
InitBatch ==
  /\ Machine
  /\ env = [record |-> TRUE, callers |-> {1}, stepargs |-> StepArgs,
            speedargs |-> SpeedArgs, motors |-> {2},
            maxcalls |-> MaxCallsBatch, acccap |-> MaxCallsBatch]

NextBatch ==
  \/ Workers
  \/ \E c \in Callers : StepMultipleArgs(c) \/ SetSpeedMultiple(c) \/ Wait(c)
  \/ \E c \in Callers : ArgFault(c)

SpecBatch == InitBatch /\ [][NextBatch]_vars

\* distances passed to axis_move, in mm
AxisDistances == {-1, 0, 1}

\* an axis of both motors at 3 microsteps per rotation and 2 mm per rotation
\* (1 mm is 1 step); one controlling thread moves it and awaits it
InitAxis ==
  /\ Machine
  /\ env = [record |-> FALSE, callers |-> {1}, maxcalls |-> MaxCallsAxis,
            acccap |-> MaxCallsAxis,
            axis |-> [motors |-> <<1, 2>>, num_motors |-> 2, mm_per_rotation |-> 2,
                      microsteps_per_rotation |-> [m \in Motors |-> 3]],
            axisops |-> [op : {"axis_move"}, distance : AxisDistances]
                        \cup {[op |-> "axis_wait", distance |-> 0]},
            program |-> <<>>]

NextAxis ==
  \/ Workers
  \/ \E c \in Callers : AxisMove(c) \/ AxisWait(c)
  \/ \E c \in Callers : AxisCallees(c) \/ CallerFault(c)

SpecAxis == InitAxis /\ [][NextAxis]_vars

\* the same axis; one controlling thread moves it 1 mm back or forth and awaits
\* it, MaxCallsLatch times in any order
InitLatch ==
  /\ Machine
  /\ env = [record |-> FALSE, callers |-> {1}, maxcalls |-> MaxCallsLatch,
            acccap |-> MaxCallsLatch,
            axis |-> [motors |-> <<1, 2>>, num_motors |-> 2, mm_per_rotation |-> 2,
                      microsteps_per_rotation |-> [m \in Motors |-> 3]],
            axisops |-> [op : {"axis_move"}, distance : {-1, 1}]
                        \cup {[op |-> "axis_wait", distance |-> 0]},
            program |-> <<>>]

SpecLatch == InitLatch /\ [][NextAxis]_vars

\* the program that moves the axis d mm back, awaits it, moves it d mm forth
\* and awaits it
ThereAndBack(d) ==
  <<[op |-> "axis_move", distance |-> -d], [op |-> "axis_wait", distance |-> 0],
    [op |-> "axis_move", distance |-> d], [op |-> "axis_wait", distance |-> 0]>>

\* an axis of both motors at 2 microsteps per rotation and 2 mm per rotation
\* (d mm are d steps); one controlling thread runs ThereAndBack(d)
InitTrip ==
  /\ Machine
  /\ \E d \in 1..MaxTrip :
       env = [record |-> TRUE, callers |-> {1}, maxcalls |-> 4,
              acccap |-> 2 * MaxTrip,
              axis |-> [motors |-> <<1, 2>>, num_motors |-> 2,
                        mm_per_rotation |-> 2,
                        microsteps_per_rotation |-> [m \in Motors |-> 2]],
              axisops |-> {}, program |-> ThereAndBack(d)]

SpecTrip == InitTrip /\ [][NextAxis]_vars

\* steps = mm_to_steps(axis, distance) for a distance mm >= 0, kept in the
\* thread's locals
MmToSteps(c) ==
  /\ ~crashed
  /\ c \in env.callers
  /\ \E mm \in 0..MaxMm :
       al' = [al EXCEPT ![c] = [EmptyAl EXCEPT !.op = "mm_to_steps",
                                              !.distance = mm,
                                              !.steps = mm_to_steps(mm)]]
  /\ UNCHANGED <<motorVars, heapVars, pulserVars, callerVars, cfgVars, reset_dir, apc,
                 alog, stop_returned, crashed, g>>

\* any axis of both motors, each with its own microsteps per rotation
InitConvert ==
  /\ Machine
  /\ \E u \in [Motors -> 1..MaxMicrosteps], p \in 1..MaxMmPerRotation :
       env = [record |-> FALSE, callers |-> {1}, maxcalls |-> 0, acccap |-> 0,
              axis |-> [motors |-> <<1, 2>>, num_motors |-> 2,
                        mm_per_rotation |-> p, microsteps_per_rotation |-> u],
              axisops |-> {}, program |-> <<>>]

NextConvert == \E c \in Callers : MmToSteps(c)

SpecConvert == InitConvert /\ [][NextConvert]_vars

\* the motor names used in configuration files, with the header pins and the
\* values given to each motor
MotorNames == {<<"a">>, <<"a", "b">>}
StepPinOf(name) == IF name = <<"a">> THEN <<"7">> ELSE <<"1", "0">>
DirPinOf(name) == IF name = <<"a">> THEN <<"8">> ELSE <<"1", "1">>

\* the line param=value
ParamLine(param, value) == param \o <<"=">> \o value \o <<"\n">>

\* names separated by commas
RECURSIVE CommaList(_)
CommaList(names) ==
  IF Len(names) = 1 THEN names[1]
  ELSE names[1] \o <<",">> \o CommaList(Tail(names))

\* the sections a file is made of: a fully configured [motor] of some name,
\* and an [axis] that lists one or two different names
Sections ==
  [kind : {"motor"}, name : MotorNames, motors : {<<>>}]
    \cup {[kind |-> "axis", name |-> <<>>, motors |-> l] :
            l \in {<<n>> : n \in MotorNames}
                    \cup {l \in MotorNames \X MotorNames : l[1] # l[2]}}

\* the lines of a section
SectionLines(s) ==
  IF s.kind = "motor"
    THEN <<<<"[", "m", "o", "t", "o", "r", "]", "\n">>,
           ParamLine(motor_params[1].str, s.name),
           ParamLine(motor_params[2].str, StepPinOf(s.name)),
           ParamLine(motor_params[3].str, DirPinOf(s.name)),
           ParamLine(motor_params[4].str, <<"2", "0", "0">>),
           ParamLine(motor_params[5].str, <<"c", "l", "o", "c", "k", "w", "i", "s", "e">>),
           ParamLine(motor_params[6].str, <<"1", "6">>)>>
    ELSE <<<<"[", "a", "x", "i", "s", "]", "\n">>,
           ParamLine(axis_params[2].str, CommaList(s.motors)),
           ParamLine(axis_params[3].str, <<"8">>)>>

\* the lines of a file made of the sections ss
RECURSIVE FileLines(_)
FileLines(ss) == IF ss = <<>> THEN <<>>
                 ELSE SectionLines(Head(ss)) \o FileLines(Tail(ss))

\* read_motor_config is called once on a configuration file of up to
\* MaxSections sections
InitConfig ==
  /\ Machine
  /\ \E n \in 0..MaxSections : \E ss \in [1..n -> Sections] :
       env = [record |-> FALSE, callers |-> {}, maxcalls |-> 0, acccap |-> 0,
              sections |-> ss, file |-> FileLines(ss)]

NextConfig == ReadMotorConfig \/ motor_config_state_machine \/ init_motors

SpecConfig == InitConfig /\ [][NextConfig]_vars

\* what any configuration file is parsed under
ConfigEnv(lines) ==
  [record |-> FALSE, callers |-> {}, maxcalls |-> 0, acccap |-> 0,
   sections |-> <<>>, file |-> lines]

\* key lines: the keys of the two tables, keys that start with one of them,
\* a key that one of them starts with, and a key of neither table
KeyLines ==
  {ParamLine(<<"n", "a", "m", "e">>, <<"a">>),
   ParamLine(<<"n", "a", "m", "e", "s">>, <<"a">>),
   ParamLine(<<"n", "a", "m">>, <<"a">>),
   ParamLine(<<"m", "i", "c", "r", "o", "s", "t", "e", "p">>, <<"1">>),
   ParamLine(<<"m", "o", "t", "o", "r", "s">>, <<"a">>),
   ParamLine(<<"m", "o", "t", "o", "r", "s", "x">>, <<"a">>),
   ParamLine(<<"m", "m", "_", "p", "e", "r", "_", "r", "o", "t", "a", "t", "i",
               "o", "n">>, <<"8">>),
   ParamLine(<<"m", "m", "_", "p", "e", "r", "_", "r", "o", "t", "a", "t", "i",
               "o", "n", "s">>, <<"8">>),
   ParamLine(<<"s", "p", "e", "e", "d">>, <<"1">>)}

\* a file of one section: its header and up to MaxKeyLines key lines
InitKeys ==
  /\ Machine
  /\ \E header \in {<<"[", "m", "o", "t", "o", "r", "]", "\n">>,
                     <<"[", "a", "x", "i", "s", "]", "\n">>} :
       \E n \in 0..MaxKeyLines : \E ks \in [1..n -> KeyLines] :
         env = ConfigEnv(<<header>> \o ks)

NextFaulty == NextConfig \/ ParserFault

SpecKeys == InitKeys /\ [][NextFaulty]_vars

\* the two section headers
MotorHeader == <<"[", "m", "o", "t", "o", "r", "]", "\n">>
AxisHeader == <<"[", "a", "x", "i", "s", "]", "\n">>

\* a file of up to MaxHeaders section headers, or the file of a motor a and
\* an axis that lists it up to MaxNames times
InitMany ==
  /\ Machine
  /\ \/ \E n \in 0..MaxHeaders : \E hs \in [1..n -> {MotorHeader, AxisHeader}] :
          env = ConfigEnv(hs)
     \/ \E n \in 1..MaxNames :
          env = ConfigEnv(<<MotorHeader, ParamLine(motor_params[1].str, <<"a">>),
                            AxisHeader,
                            ParamLine(axis_params[2].str,
                                      CommaList([i \in 1..n |-> <<"a">>]))>>)

SpecMany == InitMany /\ [][NextFaulty]_vars

\* the names of axes
AxisNames == {<<"x">>, <<"x", "y">>}

\* sections that give a name: a fully configured [motor] or an [axis] of motor
\* a, with or without a line names=z after its name line (extra = 1)
NamedSections ==
  [kind : {"motor"}, name : MotorNames, extra : {0, 1}]
    \cup [kind : {"axis"}, name : AxisNames, extra : {0, 1}]

NamesLine(s) ==
  IF s.extra = 1 THEN <<ParamLine(<<"n", "a", "m", "e", "s">>, <<"z">>)>> ELSE <<>>

NamedLines(s) ==
  IF s.kind = "motor"
    THEN <<MotorHeader, ParamLine(motor_params[1].str, s.name)>>
           \o NamesLine(s)
           \o SubSeq(SectionLines([kind |-> "motor", name |-> s.name]), 3, 7)
    ELSE <<AxisHeader, ParamLine(axis_params[1].str, s.name)>>
           \o NamesLine(s)
           \o <<ParamLine(axis_params[2].str, <<"a">>),
                ParamLine(axis_params[3].str, <<"8">>)>>

RECURSIVE NamedFile(_)
NamedFile(ss) == IF ss = <<>> THEN <<>>
                 ELSE NamedLines(Head(ss)) \o NamedFile(Tail(ss))

\* read_motor_config is called once on a file of up to MaxSections such
\* sections
InitNames ==
  /\ Machine
  /\ \E n \in 0..MaxSections : \E ss \in [1..n -> NamedSections] :
       env = [record |-> FALSE, callers |-> {}, maxcalls |-> 0, acccap |-> 0,
              sections |-> ss, file |-> NamedFile(ss)]

SpecNames == InitNames /\ [][NextConfig]_vars

\* read_motor_config is called once on a file of up to MaxSections such
\* sections, none with a names= line
InitLookup ==
  /\ Machine
  /\ \E n \in 0..MaxSections :
       \E ss \in [1..n -> {s \in NamedSections : s.extra = 0}] :
         env = [record |-> FALSE, callers |-> {}, maxcalls |-> 0, acccap |-> 0,
                sections |-> ss, file |-> NamedFile(ss)]

SpecLookup == InitLookup /\ [][NextConfig]_vars

\* sections with a required line left out: a [motor] a without the missing-th
\* of its six key lines, an [axis] of motor a without its motor list
\* (missing = 1) or its mm_per_rotation (missing = 2); missing = 0: complete
FieldSections ==
  [kind : {"motor"}, missing : 0..6] \cup [kind : {"axis"}, missing : 0..2]

\* the sequence s without its i-th element
Without(s, i) == SubSeq(s, 1, i - 1) \o SubSeq(s, i + 1, Len(s))

FieldLines(s) ==
  LET all == SectionLines([kind |-> s.kind, name |-> <<"a">>, motors |-> <<<<"a">>>>])
  IN IF s.missing = 0 THEN all ELSE Without(all, s.missing + 1)

RECURSIVE FieldFile(_)
FieldFile(ss) == IF ss = <<>> THEN <<>>
                 ELSE FieldLines(Head(ss)) \o FieldFile(Tail(ss))

\* read_motor_config is called once on a file of up to MaxFieldSections such
\* sections
InitFields ==
  /\ Machine
  /\ \E n \in 0..MaxFieldSections : \E ss \in [1..n -> FieldSections] :
       env = [record |-> FALSE, callers |-> {}, maxcalls |-> 0, acccap |-> 0,
              sections |-> ss, file |-> FieldFile(ss)]

SpecFields == InitFields /\ [][NextConfig]_vars

\* values of a key: numbers in and out of the sets of microstep factors and
\* of header pins, with a leading zero, too long for an int or for a long,
\* negative, and text
Values ==
  {<<>>, <<"0">>, <<"1">>, <<"2">>, <<"3">>, <<"4">>, <<"7">>, <<"8">>, <<"9">>,
   <<"1", "6">>, <<"3", "2">>, <<"4", "0">>, <<"4", "1">>, <<"0", "1", "6">>,
   <<"-", "1">>, <<"x">>, <<"1", "x">>,
   <<"4", "2", "9", "4", "9", "6", "7", "2", "9", "7">>,
   <<"4", "2", "9", "4", "9", "6", "7", "3", "0", "3">>,
   <<"9", "9", "9", "9", "9", "9", "9", "9", "9", "9", "9", "9", "9", "9", "9",
     "9", "9", "9", "9", "9">>}

\* read_motor_config is called once on a file of a section header and one key
\* line with one of these values
InitValues ==
  /\ Machine
  /\ \E header \in {MotorHeader, AxisHeader} :
       \E key \in {motor_params[i].str : i \in 1..Len(motor_params)}
                    \cup {axis_params[i].str : i \in 1..Len(axis_params)} :
         \E v \in Values : env = ConfigEnv(<<header, ParamLine(key, v)>>)

SpecValues == InitValues /\ [][NextConfig]_vars

\* lines of a file: a section header, a header that is not closed, a key line,
\* a motor list, a comment, and a value with a character no value may hold
Lines ==
  {MotorHeader,
   <<"[", "m", "o", "t", "o", "r", "\n">>,
   ParamLine(motor_params[1].str, <<"a">>),
   ParamLine(axis_params[2].str, <<"a">>),
   <<"#", "\n">>,
   ParamLine(motor_params[1].str, <<"?">>)}

\* every file of up to MaxLines of these lines
InitLines ==
  /\ Machine
  /\ \E n \in 0..MaxLines : \E ls \in [1..n -> Lines] : env = ConfigEnv(ls)

\* read_motor_config runs to its end: the loop of the state machine and the
\* calls that follow it are always taken
SpecLines == InitLines /\ [][NextFaulty]_vars /\ WF_vars(NextFaulty)

(* ------------------------------------------------------------------ *)
(* Tasks.c                                                              *)
(* ------------------------------------------------------------------ *)
TaskNames == {"t", "u"}
StackSizes == {0, 4096, MAX_STACK_SIZE, MAX_STACK_SIZE + 1}

\* what the actions of Tasks.c leave alone
Tasking ==
  UNCHANGED <<motorVars, heapVars, pulserVars, callerVars, axisVars,
              motor_config_state, motor_list, motor_list_len, axis_list,
              axis_list_len, sm, retval, result, crashed, g, stop_returned>>

\* the info blocks not yet allocated
FreeInfos == {k \in 1..MaxTasks : ~task_info[k].live /\ tpc[k] = "none"}

\* CreateTask up to list_insert_task: the parameters are validated, the info
\* block is allocated and filled (thread_id = 0) and appended to task_list;
\* 0 is returned for a stack size of 0 or above MAX_STACK_SIZE and when
\* malloc fails
CreateTask_insert ==
  /\ ct.pc = "idle"
  /\ FreeInfos # {}
  /\ \E name \in TaskNames, stack_size \in StackSizes, allocated \in BOOLEAN :
       IF stack_size = 0 \/ stack_size > MAX_STACK_SIZE \/ ~allocated
         THEN /\ ct' = [ct EXCEPT !.ret = 0]
              /\ UNCHANGED <<task_list, task_info>>
         ELSE LET k == CHOOSE i \in FreeInfos : \A j \in FreeInfos : i <= j
              IN /\ task_info' = [task_info EXCEPT
                                    ![k] = [name |-> name, thread_id |-> 0,
                                            live |-> TRUE]]
                 /\ task_list' = Append(task_list, k)
                 /\ ct' = [pc |-> "create", info |-> k, ret |-> 0]
  /\ UNCHANGED <<tpc, lookup>>
  /\ Tasking

\* CreateTask from pthread_create on: the thread is created and its id is
\* returned (the id of the thread of info block k is k), or pthread_create
\* fails and 0 is returned; the info block stays in the list
CreateTask_create ==
  /\ ct.pc = "create"
  /\ \E started \in BOOLEAN :
       IF started
         THEN /\ tpc' = [tpc EXCEPT ![ct.info] = "thread_main"]
              /\ ct' = [pc |-> "idle", info |-> NULL, ret |-> ct.info]
         ELSE /\ ct' = [pc |-> "idle", info |-> NULL, ret |-> 0]
              /\ UNCHANGED tpc
  /\ UNCHANGED <<task_list, task_info, lookup>>
  /\ Tasking

\* thread_main up to the call of the entry function:
\* task->thread_id = pthread_self()
thread_main(k) ==
  /\ tpc[k] = "thread_main"
  /\ task_info' = [task_info EXCEPT ![k].thread_id = k]
  /\ tpc' = [tpc EXCEPT ![k] = "entry_func"]
  /\ UNCHANGED <<task_list, ct, lookup>>
  /\ Tasking

\* the search loop of list_delete_task: the position in task_list of the
\* first block whose thread_id is the given one, 0 if none
RECURSIVE list_find(_, _, _)
list_find(list, thread_id, i) ==
  IF i > Len(list) THEN 0
  ELSE IF task_info[list[i]].thread_id = thread_id THEN i
  ELSE list_find(list, thread_id, i + 1)

\* the entry function has returned: list_delete_task(pthread_self()) unlinks
\* and frees the first block with the thread's id
list_delete_task(k) ==
  /\ tpc[k] = "entry_func"
  /\ LET i == list_find(task_list, k, 1)
     IN IF i = 0 THEN UNCHANGED <<task_list, task_info>>
        ELSE /\ task_list' = SubSeq(task_list, 1, i - 1)
                               \o SubSeq(task_list, i + 1, Len(task_list))
             /\ task_info' = [task_info EXCEPT ![task_list[i]].live = FALSE]
  /\ tpc' = [tpc EXCEPT ![k] = "done"]
  /\ UNCHANGED <<ct, lookup>>
  /\ Tasking

\* the loop of Task_get_id_by_name: the position of the first block of that
\* name, 0 if none
RECURSIVE list_find_name(_, _, _)
list_find_name(list, name, i) ==
  IF i > Len(list) THEN 0
  ELSE IF task_info[list[i]].name = name THEN i
  ELSE list_find_name(list, name, i + 1)

\* Task_get_id_by_name(name), called from any thread at any time: the
\* thread_id field of the first block of that name, 0 if there is none
Task_get_id_by_name ==
  /\ lookup.n < MaxLookups
  /\ \E name \in TaskNames :
       LET i == list_find_name(task_list, name, 1)
       IN lookup' = [n |-> lookup.n + 1, name |-> name,
                     id |-> IF i = 0 THEN 0 ELSE task_info[task_list[i]].thread_id]
  /\ UNCHANGED <<task_list, task_info, tpc, ct>>
  /\ Tasking

NextTasks ==
  \/ CreateTask_insert
  \/ CreateTask_create
  \/ \E k \in 1..MaxTasks : thread_main(k)
  \/ \E k \in 1..MaxTasks : list_delete_task(k)
  \/ Task_get_id_by_name

InitTasks == Machine /\ env = ConfigEnv(<<>>)

SpecTasks == InitTasks /\ [][NextTasks]_vars

(* ------------------------------------------------------------------ *)
(* Time.c                                                               *)
(* ------------------------------------------------------------------ *)
\* add_time(ta, tb, result)
add_time(ta, tb) ==
  LET ns == ta.tv_nsec + tb.tv_nsec
      s == ta.tv_sec + tb.tv_sec
  IN IF ns > NANO_IN_SECOND
       THEN [tv_sec |-> s + 1, tv_nsec |-> ns - NANO_IN_SECOND]
       ELSE [tv_sec |-> s, tv_nsec |-> ns]

\* normalised times: the seconds up to MaxSec, the nanoseconds at the ends
\* and in the middle of their range
Times ==
  [tv_sec : 0..MaxSec,
   tv_nsec : {0, 1, 111111111, 500000000, 888888888, 999999998, 999999999}]

\* add_time is called once on the two times of the run; added counts the call
AddTime ==
  /\ env.added = 0
  /\ result' = add_time(env.ta, env.tb)
  /\ env' = [env EXCEPT !.added = 1]
  /\ UNCHANGED <<motorVars, heapVars, pulserVars, cpc, cl, cret, done, calls,
                 axisVars, motor_config_state, motor_list, motor_list_len,
                 axis_list, axis_list_len, sm, retval, task_list, task_info,
                 tpc, ct, lookup, crashed, g, stop_returned>>

InitTime ==
  /\ Machine
  /\ \E a \in Times, b \in Times : env = [ta |-> a, tb |-> b, added |-> 0]

SpecTime == InitTime /\ [][AddTime]_vars

(* ------------------------------------------------------------------ *)
(* Properties                                                           *)
(* ------------------------------------------------------------------ *)
\* a motion on motor m has been accepted and its pulse loop has not been left
MotionInFlightOn(m) == \E r \in ReqIds : InFlight(r) /\ m \in Participants(r)

\* the pulser of motor m is between two requests
PulserIdle(m) == ppc[m] \in {"p_lock", "p_condwait", "p_blocked"}

\* the pulse loop of request r is left in this step
Ends(r) == ~g[r].ended /\ g'[r].ended

\* the distance of motor m's accumulator from its value when r was accepted
Moved(r, m) == Abs(steps'[m] - g[r].base[m])

\* C1: when a motion runs to completion with no stop flag set on a participant,
\* the accumulator of every participant has moved by exactly n
C1_LockstepExact ==
  [][\A r \in ReqIds :
       (Ends(r) /\ ~g'[r].early /\ ~g[r].stopSet)
         => \A m \in Participants(r) : Moved(r, m) = g[r].n]_vars

\* C2: the caller of wait(m) is never left blocked on wait_cv once the motion
\* is over: m idle, every pulser between requests, the signal already sent
C2_WaitNotStranded ==
  \A c \in Callers :
    ~ /\ cpc[c] = "w_blocked"
      /\ ~stepper_is_busy(cl[c].motor)
      /\ \A m \in Motors : PulserIdle(m)

\* C3: when wait(m) returns and no other thread has linked m to a new request
\* since the call began, m is not busy: ready(m) is 1
C3_ReadyAfterWait ==
  \A c \in Callers :
    (cpc[c] = "ret" /\ cl[c].op = "wait" /\ ~cl[c].relinked)
      => stepper_ready(cl[c].motor)

\* wait(m) found m busy, registered as the waiter, and is returning
C3_Witness ==
  \E c \in Callers :
    /\ cpc[c] = "ret" /\ cl[c].op = "wait" /\ ~cl[c].relinked
    /\ cl[c].flag = 1
    /\ stepper_ready(cl[c].motor)

\* C4: the hand-off of a request never loses the wake-up: the worker is never
\* blocked on req_cv with req_available set and the caller's signal already sent
C4_RequestNotStranded ==
  \A m \in Motors :
    ~ /\ ppc[m] = "p_blocked"
      /\ req_available[m] = 1
      /\ \A c \in Callers : ~(cpc[c] = "sm_signal" /\ cl[c].list[1] = m)

\* C5: when stop(m) returns after finding m busy, no motor of the request m
\* belonged to is still busy with it
C5_StopAfterTeardown ==
  \A c \in Callers :
    (cpc[c] = "ret" /\ cl[c].op = "stop" /\ cl[c].target # NULL)
      => \A k \in Participants(cl[c].target) : shared_mutex[k] # cl[c].target

\* C6: once a stop call has set the stop flag of a participant of an in-flight
\* motion, the pulser starts at most one further pulse
C6_AbortAtNextStep ==
  \A r \in ReqIds : g[r].highsAfterStop <= 1

\* a motion ended early (steps remaining) by a stop that was called during it
\* and observed by the pulser has moved every participant by less than n
StoppedShort(r) ==
  (g[r].stopCalled /\ g'[r].early /\ g'[r].observed)
    => \A m \in Participants(r) : Moved(r, m) < g[r].n

\* a motion has moved every participant by at most n
AtMost(r) == \A m \in Participants(r) : Moved(r, m) <= g[r].n

\* C7: when a motion ends, every participant has moved by at most n, and by
\* less than n if a stop called during the motion was observed by the pulser
C7_StopBounds ==
  [][\A r \in ReqIds : Ends(r) => (StoppedShort(r) /\ AtMost(r))]_vars

\* C8: a motion accepted after a stop on a participant has returned, with no
\* stop called during it, emits exactly n pulses
C8_NoLeftoverStop ==
  \A r \in ReqIds :
    (req[r].live /\ g[r].ended /\ g[r].afterStop /\ ~g[r].stopCalled)
      => g[r].highs = g[r].n

\* C9: the participant sets of any two in-flight requests are disjoint
C9_NoOverlap ==
  \A r, q \in ReqIds :
    (r # q /\ InFlight(r) /\ InFlight(q))
      => Participants(r) \cap Participants(q) = {}

\* a setter or a single-motor step of caller c is at its busy check
AtBusyCheck(c) ==
  \/ cpc[c] \in {"ss_loop", "sd_check"}
  \/ cpc[c] = "sm_check" /\ Len(cl[c].list) = 1

\* the call of c returns failure and no motor's configuration, accumulator,
\* stop flag or request pointer changes
Refused(c) ==
  /\ cpc'[c] = "idle"
  /\ cret'[c] = -1
  /\ UNCHANGED <<half_period, curr_direction, steps, stop, current_req>>

\* C10: while a motion is in flight on m, set_speed(m), set_direction(m) and
\* step(m) are refused and leave m as it was
C10_RefusedWhileInFlight ==
  [][\A c \in Callers :
       (AtBusyCheck(c) /\ cpc'[c] # cpc[c] /\ MotionInFlightOn(cl[c].motor))
         => Refused(c)]_vars

\* the motors named by the list of a call
Listed(call) == SeqRange(call.list) \ {NULL}

\* the arguments of a *_multiple call are invalid: a NULL array, a NULL handle
\* in the array, a count outside 1..MOTOR_LIST_SIZE_MAX, zero steps or pps
Invalid(call) ==
  \/ call.nolist
  \/ NullHandle(call.list)
  \/ call.count < 1
  \/ call.count > MOTOR_LIST_SIZE_MAX
  \/ call.arg = 0

\* this step is taken by controlling thread c
CallerSteps(c) == cpc'[c] # cpc[c] \/ cl'[c] # cl[c]

\* C11: a step of set_speed_multiple taken while any listed motor is busy
\* changes no half_period, and if it is the return it returns failure
C11_SetSpeedAllOrNothing ==
  [][\A c \in Callers :
       (/\ cpc[c] = "ss_loop"
        /\ ~Invalid(cl[c])
        /\ CallerSteps(c)
        /\ \E k \in Listed(cl[c]) : stepper_is_busy(k))
         => /\ half_period' = half_period
            /\ cpc'[c] = "idle" => cret'[c] = -1]_vars

\* C12: a step_multiple or set_speed_multiple call with an invalid argument
\* does not bring the process down, changes no motor field, creates no
\* request, and returns an error
C12_InvalidArgsNoEffect ==
  [][\A c \in Callers :
       (cl[c].op \in {"step_multiple", "set_speed"} /\ Invalid(cl[c]))
         => /\ ~crashed'
            /\ CallerSteps(c)
                 => /\ UNCHANGED <<motorVars, heapVars>>
                    /\ cpc'[c] = "idle" => cret'[c] = -1]_vars

\* h is the integer part of 500000 / min(pps, MAX_PPS)
IsHalfPeriodOf(h, pps) ==
  LET q == IF pps < MAX_PPS THEN pps ELSE MAX_PPS IN
    /\ q > 0
    /\ h * q <= 500000
    /\ 500000 < (h + 1) * q

\* C15: after a successful set_speed_multiple the pps was not 0 and every
\* listed motor's half_period is floor(500000 / min(pps, 4160)), which lies
\* in 120..500000
C15_HalfPeriodFormula ==
  \A c \in Callers :
    (cpc[c] = "idle" /\ done[c].call.op = "set_speed" /\ done[c].ret = 0)
      => /\ done[c].call.arg # 0
         /\ \A k \in Listed(done[c].call) :
              /\ IsHalfPeriodOf(half_period[k], done[c].call.arg)
              /\ half_period[k] \in 120..500000

\* a speed above the limit has been set on two motors: both have the half
\* period of the limit
C15_Witness ==
  \E c \in Callers :
    /\ cpc[c] = "idle"
    /\ done[c].call.op = "set_speed"
    /\ done[c].ret = 0
    /\ done[c].call.arg > MAX_PPS
    /\ Listed(done[c].call) = {1, 2}
    /\ \A k \in {1, 2} : half_period[k] = 120

\* C13: in every state, for every motor, the current-request pointer is
\* non-null exactly when the shared-mutex pointer is non-null, exactly when
\* ready(m) returns 0
C13_PointersAgree ==
  \A m \in Motors :
    /\ (current_req[m] # NULL) <=> (shared_mutex[m] # NULL)
    /\ (current_req[m] # NULL) <=> ~stepper_ready(m)

\* C14: once a wait on a participant, called after step_multiple returned
\* success, has returned, the motion updates no accumulator any more
C14_WaitSeesAllUpdates ==
  [][\A r \in ReqIds :
       (g[r].awaited /\ g'[r].awaited) => g'[r].ticks = g[r].ticks]_vars

\* the motors of the axis
AxisMotors == SeqRange(axis.motors)

\* C16: an axis_move that returns failure leaves the reset_direction latch and
\* every motor's direction as they were when it was called.
C16_FailedMoveNoEffect ==
  \A i \in 1..Len(alog) :
    (alog[i].op = "axis_move" /\ alog[i].ret = -1)
      => /\ alog[i].latch1 = alog[i].latch0
         /\ \A m \in AxisMotors : alog[i].dir1[m] = alog[i].dir0[m]

\* an axis operation of thread c takes a step
AxisSteps(c) == apc'[c] # apc[c]

\* C18: axis_move with distance 0 returns success and changes nothing: latch,
\* directions, speeds, accumulators and requests stay as they are, whether or
\* not the latch is set or the motors are busy.
C18_ZeroMoveNoOp ==
  [][\A c \in Callers :
       (/\ AxisSteps(c)
        /\ \/ al[c].op = "axis_move" /\ al[c].arg = 0
           \/ al'[c].op = "axis_move" /\ al'[c].arg = 0)
         => /\ UNCHANGED <<motorVars, heapVars, reset_dir, cpc, cl>>
            /\ (al[c].op = "axis_move" /\ apc'[c] = "idle")
                 => alog'[Len(alog')].ret = 0]_vars

C18_Witness ==
  \E i \in 1..Len(alog) :
    /\ alog[i].op = "axis_move" /\ alog[i].arg = 0 /\ alog[i].ret = 0
    /\ alog[i].latch0 = 1 /\ alog[i].busy0
    /\ alog[i].latch1 = 1 /\ alog[i].busy1

\* C17: from an idle axis in positive direction, axis_move(-d) awaited and
\* then axis_move(+d) awaited bring every motor's accumulator back to its
\* value before the two moves (d being at least one step).
C17_RoundTrip ==
  \A i \in 1..Len(alog) :
    (/\ i + 3 <= Len(alog)
     /\ alog[i].op = "axis_move" /\ alog[i].arg < 0 /\ alog[i].ret = 0
     /\ mm_to_steps(-alog[i].arg) >= 1
     /\ alog[i].latch0 = 0 /\ ~alog[i].busy0
     /\ \A m \in AxisMotors : alog[i].dir0[m] = pos_direction(m)
     /\ alog[i + 1].op = "axis_wait"
     /\ alog[i + 2].op = "axis_move" /\ alog[i + 2].arg = -alog[i].arg
     /\ alog[i + 2].ret = 0
     /\ alog[i + 3].op = "axis_wait")
      => \A m \in AxisMotors : alog[i + 3].steps1[m] = alog[i].steps0[m]

C17_Witness ==
  /\ Len(alog) = 4
  /\ alog[1].arg = -MaxTrip /\ alog[1].ret = 0 /\ alog[3].ret = 0
  /\ \A m \in AxisMotors : /\ alog[2].steps1[m] = -MaxTrip
                            /\ alog[4].steps1[m] = alog[1].steps0[m]
\* s is an integer nearest to a / b (either neighbour at a tie)
IsRounded(s, a, b) == 2 * s * b - 2 * a <= b /\ 2 * a - 2 * s * b <= b

\* C19: for every non-negative mm, mm_to_steps is mm * microsteps_per_rotation
\* of the first motor / mm_per_rotation, rounded to the nearest integer.
C19_MmToStepsRounds ==
  \A c \in Callers :
    al[c].op = "mm_to_steps"
      => IsRounded(al[c].steps,
                   al[c].distance * axis.microsteps_per_rotation[axis.motors[1]],
                   axis.mm_per_rotation)
\* section i of the file is an [axis] whose list names, at place k, a motor
\* that no [motor] section before it defines
NamesUndefined(ss, i, k) ==
  /\ ss[i].kind = "axis"
  /\ k \in 1..Len(ss[i].motors)
  /\ ~\E j \in 1..(i - 1) : ss[j].kind = "motor" /\ ss[j].name = ss[i].motors[k]

\* a Stepper or an Axis has been constructed
Constructed ==
  \E i \in 1..MOTOR_LIST_SIZE_MAX :
    motor_list[i].motor # NULL \/ axis_list[i].axis # NULL

\* C20: if an [axis] section lists a motor that no earlier [motor] section
\* defines (a later definition does not count), no Stepper or Axis is ever
\* constructed, read_motor_config returns -1, and the parser, if the file
\* could be opened, ends in ERROR.
C20_UndefinedMotorRejected ==
  (\E i \in 1..Len(env.sections), k \in 1..2 : NamesUndefined(env.sections, i, k))
    => /\ ~Constructed
       /\ sm.phase = "returned"
            => /\ retval = -1
               /\ sm.config_file # NULL => motor_config_state = "ERROR"

\* the file [motor] a, [axis] a,ab, [motor] ab: the parser has stopped at the
\* list (line 9) with a found and ab, defined only later, not found
C20_Witness ==
  /\ Len(env.sections) = 3
  /\ env.sections[1].kind = "motor" /\ env.sections[1].name = <<"a">>
  /\ env.sections[2].motors = <<<<"a">>, <<"a", "b">>>>
  /\ env.sections[3].kind = "motor" /\ env.sections[3].name = <<"a", "b">>
  /\ sm.phase = "returned" /\ motor_config_state = "ERROR" /\ retval = -1
  /\ sm.pos = 9 /\ sm.value = <<"a", "b">>
  /\ axis_list[1].count = 1
  /\ ~Constructed
\* the keys of a section of type id, exactly
ExactKeys(id) ==
  IF id = "MOTOR"
    THEN {<<"n", "a", "m", "e">>, <<"s", "t", "e", "p", "_", "p", "i", "n">>,
          <<"d", "i", "r", "_", "p", "i", "n">>,
          <<"s", "t", "e", "p", "s", "_", "p", "e", "r", "_", "r", "o", "t", "a",
            "t", "i", "o", "n">>,
          <<"d", "i", "r", "e", "c", "t", "i", "o", "n">>,
          <<"m", "i", "c", "r", "o", "s", "t", "e", "p">>}
    ELSE {<<"n", "a", "m", "e">>, <<"m", "o", "t", "o", "r", "s">>,
          <<"m", "m", "_", "p", "e", "r", "_", "r", "o", "t", "a", "t", "i", "o",
            "n">>}

\* C21: in a [motor] or [axis] section, a key that is not exactly one of the
\* section's keys drives the parser to ERROR when it is checked.
C21_UnknownKeyIsError ==
  [][(/\ sm.phase = "parsing"
      /\ motor_config_state = "CHECK_PARAM"
      /\ sm.last_id \in {"MOTOR", "AXIS"}
      /\ sm.param \notin ExactKeys(sm.last_id))
       => motor_config_state' = "ERROR"]_vars
\* C22: the parser never holds more than 8 motor entries, 8 axis entries or
\* 8 motors in one axis entry.
C22_ListsBounded ==
  /\ motor_list_len <= 8
  /\ axis_list_len <= 8
  /\ \A i \in 1..MOTOR_LIST_SIZE_MAX : axis_list[i].count <= 8
\* the state machine, once started, reaches FINISHED or ERROR
Terminates ==
  (sm.phase = "parsing") ~> (motor_config_state \in {"FINISHED", "ERROR"})

\* FINISHED and ERROR are left by no transition, and no line is read in them
Terminal ==
  [][(sm.phase # "idle" /\ motor_config_state \in {"FINISHED", "ERROR"})
       => (motor_config_state' = motor_config_state /\ sm'.pos = sm.pos)]_vars

\* the state machine that has returned from ERROR has written one line
OneDiagnostic ==
  [](sm.phase = "returned" /\ sm.error = 1 => sm.stderr = 1)

\* C23: for every file the state machine reaches FINISHED or ERROR, both are
\* terminal, and on ERROR exactly one diagnostic line has been written and no
\* further line is read.
C23_ParserTerminates == Terminates /\ Terminal /\ OneDiagnostic
\* the sections of one kind, in file order
SectionsOf(kind) == SelectSeq(env.sections, LAMBDA s : s.kind = kind)

\* read_motor_config has returned 0
Parsed == sm.phase = "returned" /\ retval = 0

\* C24: after a successful parse the i-th motor entry carries the name given
\* in the i-th [motor] section and the j-th axis entry the name given in the
\* j-th [axis] section.
C24_NamesRoundTrip ==
  Parsed =>
    /\ motor_list_len = Len(SectionsOf("motor"))
    /\ axis_list_len = Len(SectionsOf("axis"))
    /\ \A i \in 1..motor_list_len : motor_list[i].name = SectionsOf("motor")[i].name
    /\ \A j \in 1..axis_list_len : axis_list[j].name = SectionsOf("axis")[j].name
\* every field of a motor entry is set
MotorEntrySet(node) ==
  /\ node.name # <<>> /\ node.direction \in {DIRECTION_CLOCKWISE, DIRECTION_COUNTERCLOCKWISE}
  /\ node.step_pin # 0 /\ node.dir_pin # 0
  /\ node.steps_rot # 0 /\ node.microstep # 0

\* C25: read_motor_config returns 0 only if every motor entry has its six
\* fields set and every axis entry has count > 0 and mm_per_rotation > 0; a
\* file with a section that misses a required line returns -1.
C25_IncompleteRejected ==
  sm.phase = "returned" =>
    /\ retval = 0 =>
          /\ \A i \in 1..motor_list_len : MotorEntrySet(motor_list[i])
          /\ \A j \in 1..axis_list_len :
                axis_list[j].count > 0 /\ axis_list[j].mm_rot > 0
    /\ (\E k \in DOMAIN env.sections : env.sections[k].missing # 0) => retval = -1

\* a file of a complete [motor] and an [axis] without mm_per_rotation has been
\* read to its end and has been rejected by init_motors
C25_Witness ==
  /\ Len(env.sections) = 2
  /\ env.sections[1] = [kind |-> "motor", missing |-> 0]
  /\ env.sections[2] = [kind |-> "axis", missing |-> 2]
  /\ sm.phase = "returned" /\ sm.error = 0 /\ motor_config_state = "FINISHED"
  /\ motor_list_len = 1 /\ axis_list_len = 1 /\ axis_list[1].count = 1
  /\ motor_list[1].motor # 0 /\ axis_list[1].axis = 0
  /\ retval = -1
\* the decimal numeral of n < 100
DigitChars == <<"0", "1", "2", "3", "4", "5", "6", "7", "8", "9">>
Numeral(n) == IF n < 10 THEN <<DigitChars[n + 1]>>
              ELSE <<DigitChars[(n \div 10) + 1], DigitChars[(n % 10) + 1]>>

\* a numeral without its leading zeros
RECURSIVE Strip(_)
Strip(v) == IF Len(v) > 1 /\ v[1] = "0" THEN Strip(Tail(v)) ELSE v

\* the value v is a decimal numeral of one of the numbers of S
NumeralOf(v, S) == \E n \in S : Strip(v) = Numeral(n)

\* state_set_param is about to set the parameter id of a motor
Setting(id) ==
  /\ sm.phase = "parsing" /\ motor_config_state = "SET_PARAM"
  /\ sm.param_id = id /\ motor_list_len = 1

MicrostepFactors == {1, 2, 4, 8, 16}

\* C26: a microstep value is accepted if and only if it is a positive integer
\* of {1, 2, 4, 8, 16}, every other value drives the parser to ERROR, and
\* stepper_init refuses every factor outside that set.
C26_MicrostepSet ==
  /\ [][Setting("MICROSTEP") =>
          /\ motor_config_state' # "ERROR" <=> NumeralOf(sm.value, MicrostepFactors)
          /\ motor_config_state' # "ERROR" =>
                Numeral(motor_list'[1].microstep) = Strip(sm.value)]_vars
  /\ [](\A u \in 0..33 : u \notin MicrostepFactors =>
           ~stepper_init_valid(u, 200, DIRECTION_CLOCKWISE))

HeaderPins == {7, 8, 10, 11, 12, 13, 16, 18, 19, 21, 23, 24, 29, 31, 32, 33, 35,
               36, 37, 38, 40}

\* C27: a step_pin or dir_pin value is accepted if and only if it is a
\* positive decimal integer of the 21 header numbers, and it is stored as that
\* pin's identifier; every other number drives the parser to ERROR.
C27_HeaderPins ==
  [][\A id \in {"STEP_PIN", "DIR_PIN"} : Setting(id) =>
       /\ motor_config_state' # "ERROR" <=> NumeralOf(sm.value, HeaderPins)
       /\ motor_config_state' # "ERROR" =>
             \E n \in HeaderPins :
               /\ Numeral(n) = Strip(sm.value)
               /\ motor_list'[1][ParamField(id)] = J21Line[n]]_vars
\* C28: after read_motor_config has returned 0, get_axis_by_name(n) is the
\* non-null handle of an axis entry named n for every axis name n of the
\* file, and get_motor_by_name(n) that of a motor entry named n for every
\* motor name n.
C28_LookupFinds ==
  Parsed =>
    \A k \in DOMAIN env.sections :
      LET s == env.sections[k]
      IN IF s.kind = "axis"
           THEN /\ get_axis_by_name(s.name) # NULL
                /\ \E j \in 1..axis_list_len :
                     /\ axis_list[j].name = s.name
                     /\ axis_list[j].axis = get_axis_by_name(s.name)
           ELSE /\ get_motor_by_name(s.name) # NULL
                /\ \E i \in 1..motor_list_len :
                     /\ motor_list[i].name = s.name
                     /\ motor_list[i].motor = get_motor_by_name(s.name)
\* the info block k is the only one in the list that bears its name
OnlyName(k) ==
  \A i \in 1..Len(task_list) :
    task_list[i] # k => task_info[task_list[i]].name # task_info[k].name

\* C29: once CreateTask has returned the id of a new task whose name no other
\* task bears, a Task_get_id_by_name of that name returns that id, wherever
\* the new thread is between its start and the return of its entry function.
C29_LookupAfterCreate ==
  [][\A k \in 1..MaxTasks :
       (/\ tpc[k] \in {"thread_main", "entry_func"}
        /\ OnlyName(k)
        /\ lookup'.n = lookup.n + 1
        /\ lookup'.name = task_info[k].name)
         => lookup'.id = k]_vars

\* C30: add_time of two normalised times yields the normalised sum, also
\* when the nanoseconds add up to exactly 10^9.
C30_AddTimeNormalised ==
  env.added = 1 =>
    LET ns == env.ta.tv_nsec + env.tb.tv_nsec
        carry == IF ns >= 1000000000 THEN 1 ELSE 0
    IN /\ result.tv_sec = env.ta.tv_sec + env.tb.tv_sec + carry
       /\ result.tv_nsec = ns - carry * 1000000000
       /\ 0 <= result.tv_nsec /\ result.tv_nsec < 1000000000

(* ------------------------------------------------------------------ *)
(* The pulse train of one motion                                        *)
(* ------------------------------------------------------------------ *)
\* the motor whose worker step_multiple wakes for request r: motors[0]
First(r) == req[r].motor_list[1]

\* the worker of motor m writes the bulk of its request in this step
Pulses(m) == ppc[m] \in {"p_high", "p_low"} /\ ppc'[m] # ppc[m]

\* the worker of motor m signals a wait_cv in this step
Signals(m) == ppc[m] = "p_signal" /\ ppc'[m] # ppc[m]

\* C31: during a motion only the worker of the first listed motor is woken and
\* drives the pulses: every other participant has req_available = 0 and its
\* worker stays in the wait on req_cv, every write of a bulk is made by the
\* worker of the first motor of that request, and the teardown wakes only
\* callers blocked on the wait_cv of the registered waiting motor
C31_OnlyFirstWorker ==
  /\ [](\A r \in ReqIds :
          InFlight(r) => \A k \in Participants(r) \ {First(r)} :
                           req_available[k] = 0 /\ PulserIdle(k))
  /\ [][\A m \in Motors :
          /\ Pulses(m) => (current_req[m] # NULL /\ First(current_req[m]) = m)
          /\ Signals(m) => \A c \in Callers :
                             cpc'[c] # cpc[c] => cl[c].motor = pl[m].waiting]_vars

\* C32: during a motion the magnitude of the accumulator of every participating
\* motor never decreases, and every change of it is a growth by exactly one
C32_MagnitudeGrows ==
  [][\A m \in Motors :
       (MotionInFlightOn(m) /\ steps'[m] # steps[m])
         => Abs(steps'[m]) = Abs(steps[m]) + 1]_vars

\* the number of pulses of request r that the accumulator of participant m,
\* the value stepper_get_steps reads, has not yet been updated for
Lag(r, m) == g[r].highs - g[r].ticks[m]

\* C33: a reader of the accumulator lags the pulser by at most one pulse: for
\* every participant of an in-flight request the number of high writes of the
\* request exceeds the number of its accumulator updates by 0 or 1
C33_LagAtMostOne ==
  \A r \in ReqIds :
    InFlight(r) => \A m \in Participants(r) : Lag(r, m) \in {0, 1}

\* the worker of motor m writes high, writes low, or releases the bulk of the
\* request its current_req points to in this step
WritesHigh(m) == ppc[m] = "p_high" /\ ppc'[m] = "p_low"
WritesLow(m) == ppc[m] = "p_low" /\ ppc'[m] = "p_upd_read"
Releases(m) == ppc[m] = "p_lockshr" /\ ppc'[m] = "p_clr_req"

\* C34: the writes to the bulk of one motion alternate high, low, starting
\* with high; the number of high writes never exceeds the requested step
\* count; the last write before the teardown releases the bulk is low
C34_PulseTrain ==
  /\ [](\A r \in ReqIds : req[r].live => g[r].highs <= g[r].n)
  /\ [][\A m \in Motors :
          LET r == current_req[m] IN
            /\ WritesHigh(m) => g[r].level \in {"none", "low"}
            /\ WritesLow(m) => g[r].level = "high"
            /\ Releases(m) => g[r].level = "low"]_vars

\* request r holds its bulk: it has been accepted and the teardown has not yet
\* released the bulk
HoldsBulk(r) == req[r].live /\ \A k \in Motors : pl[k].request # r

\* C35: the step line of a motor is requested from the driver exactly while
\* the motor participates in a request that has been accepted and not yet
\* torn down
C35_LineWhileInMotion ==
  \A m \in Motors :
    line_requested[m] <=> \E r \in ReqIds : HoldsBulk(r) /\ m \in Participants(r)

\* the step_multiple call of thread c fails at the bulk reservation in this step
BulkRefused(c) ==
  /\ cpc[c] = "sm_create" /\ cpc'[c] = "idle"
  /\ FreeIds # {}
  /\ ~NullHandle(cl[c].list)
  /\ cl[c].count >= 0

\* C36: a step_multiple call whose bulk reservation fails returns failure and
\* changes nothing: no current_req, shared_mutex or req_available changes, and
\* every step line held by a request that holds its bulk stays requested
C36_RefusalNoEffect ==
  [][\A c \in Callers :
       BulkRefused(c)
         => /\ cret'[c] = -1
            /\ UNCHANGED <<current_req, shared_mutex, req_available>>
            /\ \A r \in ReqIds : \A m \in Participants(r) :
                 (HoldsBulk(r) /\ line_requested[m]) => line_requested'[m]]_vars

\* C37: the shared mutex that stepper_wait is about to lock, and the request
\* and the mutex it is about to use while registering, are live: never NULL
\* and never destroyed and freed by the teardown
C37_WaitTouchesLive ==
  \A c \in Callers :
    /\ cpc[c] = "w_lock" => ~BadMtx(shared_mutex[cl[c].motor])
    /\ cpc[c] = "w_reg" => /\ ~BadReq(current_req[cl[c].motor])
                           /\ ~BadMtx(shared_mutex[cl[c].motor])

\* thread c is blocked on the wait_cv of its motor and the motion of that
\* motor is over: the motor is not busy any more
BlockedAfterMotion(c) == cpc[c] = "w_blocked" /\ ~stepper_is_busy(cl[c].motor)

\* thread c called wait on a participant of the request that the worker of
\* motor m has torn down (its freed block is the one of pl[m].shr), after the
\* request was accepted, and is blocked on that motor's wait_cv
BlockedOn(c, m) == cpc[c] = "w_blocked" /\ pl[m].shr \in cl[c].after

\* C38: when the teardown of a request signals, every caller blocked on the
\* wait_cv of one of its motors is woken; and every caller that is blocked on
\* a wait_cv when the motion is over eventually returns (unless the process
\* has died): the single motor_waiting slot leaves no caller blocked forever
C38_BothWaitsReturn ==
  /\ [][\A m \in Motors : \A c \in Callers :
          (Signals(m) /\ BlockedOn(c, m)) => cpc'[c] # "w_blocked"]_vars
  /\ \A c \in Callers : BlockedAfterMotion(c) ~> (cpc[c] = "idle" \/ crashed)

\* the next step of the parser stores a parameter into the last motor entry,
\* into the last axis entry, or a motor into the list of the last axis entry
StoresMotorParam ==
  /\ sm.phase = "parsing" /\ motor_config_state = "SET_PARAM"
  /\ sm.param_id \in MotorParamIds
  /\ Accepted(sm.param_id, sm.value)
StoresAxisParam ==
  /\ sm.phase = "parsing" /\ motor_config_state = "SET_PARAM"
  /\ sm.param_id \notin MotorParamIds \cup {"MOTOR_LIST"}
  /\ Accepted(sm.param_id, sm.value)
StoresListedMotor ==
  /\ sm.phase = "parsing" /\ motor_config_state = "READ_MOTOR_LIST"
  /\ ReadMotorList(sm.line_buff, sm.offset, LastAxis.motors).found # LastAxis.motors

\* C39: the entry the parser writes exists: motor_list_len >= 1 at every store
\* to motor_list[motor_list_len-1] and axis_list_len >= 1 at every store to
\* axis_list[axis_list_len-1]
C39_EntryExists ==
  /\ StoresMotorParam => motor_list_len >= 1
  /\ StoresAxisParam => axis_list_len >= 1
  /\ StoresListedMotor => axis_list_len >= 1

\* C40: every axis_move with a positive distance that is accepted runs with
\* all motors of the axis in their positive direction
C40_PositiveMoveForward ==
  \A i \in 1..Len(alog) :
    (alog[i].op = "axis_move" /\ alog[i].arg > 0 /\ alog[i].ret = 0)
      => \A m \in AxisMotors : alog[i].dir1[m] = pos_direction(m)

====
